---- MODULE Spec2Model ----
(***************************************************************************)
(* Model of the api.Server coordinator of whatsapp-cli                     *)
(* (src/internal/api/server.go and the QR accessors of the api package):   *)
(* the atomic flags authenticated / syncing / syncRunning, the counter     *)
(* messagesSynced, the single-slot currentQR, the goroutine started by     *)
(* StartBackgroundSync, the goroutine started by StartQRAuth, the direct   *)
(* calls of the exported setters, and the HTTP requests served through     *)
(* Server.mux, among them the handlers that read the flags.                *)
(*                                                                         *)
(* Every atomic Load / Store / Add of the Go code is one step; the steps   *)
(* of different goroutines interleave freely.                              *)
(***************************************************************************)
EXTENDS Integers, Sequences, FiniteSets, TLC

(* ---------------------------------------------------------------------- *)
(* Bounds                                                                  *)
(* ---------------------------------------------------------------------- *)

\* number of per-message callbacks the provider may deliver in one run
MaxCallbacks == 3

\* number of challenge codes the provider may surface before it succeeds or gives up
MaxQRCalls == 2

\* challenge codes the provider may surface through onQR
QRCodes == {"qr-code-1", "qr-code-2"}

\* a code of 2332 lower-case letters: one byte more than the largest QR
\* symbol holds at level Medium
OversizeQR ==
    LET a4    == "aaaa"
        a16   == a4 \o a4 \o a4 \o a4
        a64   == a16 \o a16 \o a16 \o a16
        a256  == a64 \o a64 \o a64 \o a64
        a1024 == a256 \o a256 \o a256 \o a256
    IN  a1024 \o a1024 \o a256 \o a16 \o a4 \o a4 \o a4

\* a code of 3072 upper-case letters: longer, but of characters a QR symbol
\* packs two to 11 bits, so that it fits
LongQR ==
    LET a4    == "AAAA"
        a16   == a4 \o a4 \o a4 \o a4
        a64   == a16 \o a16 \o a16 \o a16
        a256  == a64 \o a64 \o a64 \o a64
        a1024 == a256 \o a256 \o a256 \o a256
    IN  a1024 \o a1024 \o a1024

\* arguments of a direct SetCurrentQR call: a code, "" to clear the slot, a
\* code too long to be rendered, and a long code that is rendered
DirectQRCodes == {"", "test-qr-code-data", OversizeQR, LongQR}

VARIABLES
    authenticated,   \* Server.authenticated  (atomic.Bool)
    syncing,         \* Server.syncing        (atomic.Bool)
    syncRunning,     \* Server.syncRunning    (atomic.Bool)
    messagesSynced,  \* Server.messagesSynced (atomic.Int64)
    currentQR,       \* Server.currentQR      (atomic.Value): <<>> is nil, <<s>> holds s
    ctxDone,         \* the context passed to both goroutines has been cancelled
    syncPc,          \* position of the StartBackgroundSync goroutine
    qrPc,            \* position of the StartQRAuth goroutine
    syncCalls,       \* history: number of invocations of app.Sync
    cbCalls,         \* history: number of invocations of the onMessage callback
    lastQRArg,       \* history: argument of the most recent SetCurrentQR call ("" if none)
    qrCalls,         \* history: number of invocations of the onQR callback
    cancelledBeforeAuth, \* history: cancel fired while authenticated was false
    directWrites,    \* history: the setters called from outside the two goroutines
    syncResult,      \* what app.Sync returned to the sync goroutine ("" while it has not returned)
    syncLog,         \* the lines the sync goroutine has written to os.Stderr
    cfg,             \* the arguments of NewServer: the Config, and whether app is nil
    http,            \* the HTTP request being served through Server.mux, and what it produced
    probe,           \* a direct call of a PhoneFilter method and its result
    chats,           \* the chats table of the message store
    messages,        \* the messages table of the message store
    storeCall,       \* the store operation executed last
    tieOrder         \* the stored rows in the order in which the list operations take
                     \* rows of equal timestamp (<<>> where nothing is listed)

vars == <<authenticated, syncing, syncRunning, messagesSynced, currentQR,
          ctxDone, syncPc, qrPc, syncCalls, cbCalls, lastQRArg,
          qrCalls, cancelledBeforeAuth, directWrites, syncResult, syncLog,
          cfg, http, probe, chats, messages, storeCall, tieOrder>>

syncOut   == <<syncResult, syncLog>>
apiVars   == <<cfg, probe>>
storeVars == <<chats, messages, storeCall, tieOrder>>

flags    == <<authenticated, syncing, syncRunning, messagesSynced, currentQR>>
history  == <<syncCalls, cbCalls, lastQRArg, qrCalls, cancelledBeforeAuth, directWrites>>

coordVars == <<flags, ctxDone, syncPc, qrPc, history, syncOut>>

(* ---------------------------------------------------------------------- *)
(* Accessors and pure helpers                                              *)
(* ---------------------------------------------------------------------- *)

\* a Go slice: nil, or present with its elements
NilSlice == [isNil |-> TRUE, items |-> <<>>]

Slice(items) == [isNil |-> FALSE, items |-> items]

\* func (s *Server) SetAuthenticated(v bool): the value stored
SetAuthenticated(v) == v

\* func (s *Server) SetSyncing(v bool): the value stored
SetSyncing(v) == v

SetCurrentQRDropEmpty(cur, qr) == IF qr = "" THEN cur ELSE <<qr>>

\* func (s *Server) SetCurrentQR(qr string): the new content of the slot
SetCurrentQR(cur, qr) == <<qr>>

\* func (s *Server) GetCurrentQR() string
GetCurrentQR(cur) == IF cur = <<>> THEN "" ELSE cur[1]

ReadyzResponseSyncOnly(a, s) ==
    IF s
    THEN [code |-> 200, status |-> "ready", reason |-> ""]
    ELSE [code |-> 503, status |-> "not_ready",
          reason |-> IF a THEN "not syncing" ELSE "not authenticated"]

\* the response handleReadyz builds from the two values it loaded
ReadyzResponse(a, s) ==
    IF a /\ s
    THEN [code |-> 200, status |-> "ready", reason |-> ""]
    ELSE [code |-> 503, status |-> "not_ready",
          reason |-> IF a THEN "not syncing" ELSE "not authenticated"]

AddStore(old, delta) == delta

\* atomic.Int64.Add
AtomicAdd(old, delta) == old + delta

PollDoneAlways(auth) == TRUE

PollDoneNever(auth) == FALSE

\* the wait loop `for !s.authenticated.Load()` is left when the load is true
PollDone(auth) == auth

\* the one line the sync goroutine prints
StartingLine == "Starting background sync..."

\* outcomes of AppService.Sync, which reports through its returned string
SyncResults == {"success", "failure"}

\* no request is being served and the store is empty
OthersIdle ==
    /\ cfg = [APIKey |-> "k1", MaxMessages |-> 100, MaxHours |-> 48,
              PhoneWhitelist |-> NilSlice, PhoneBlacklist |-> NilSlice, app |-> "app"]
    /\ http = [pc |-> "idle"]
    /\ probe = [fn |-> "none"]
    /\ chats = {}
    /\ messages = {}
    /\ storeCall = [op |-> "none"]
    /\ tieOrder = <<>>

(* ---------------------------------------------------------------------- *)
(* Initial state: NewServer                                                *)
(* ---------------------------------------------------------------------- *)

CoordInit ==
    /\ authenticated = FALSE
    /\ syncing = FALSE
    /\ syncRunning = FALSE
    /\ messagesSynced = 0
    /\ currentQR = <<>>
    /\ ctxDone = FALSE
    /\ syncPc = "init"
    /\ qrPc = "init"
    /\ syncCalls = 0
    /\ cbCalls = 0
    /\ lastQRArg = ""
    /\ qrCalls = 0
    /\ cancelledBeforeAuth = FALSE
    /\ directWrites = {}
    /\ syncResult = ""
    /\ syncLog = <<>>

Init == CoordInit /\ OthersIdle

(* ---------------------------------------------------------------------- *)
(* Environment                                                             *)
(* ---------------------------------------------------------------------- *)

\* cancel() of the context shared by the goroutines
Cancel ==
    /\ ~ctxDone
    /\ ctxDone' = TRUE
    /\ cancelledBeforeAuth' = (~authenticated /\ syncPc \in {"check", "select"})
    /\ UNCHANGED <<apiVars, storeVars, syncOut, flags, syncPc, qrPc, http, syncCalls, cbCalls, lastQRArg, qrCalls, directWrites>>

\* a setter call that is not the authentication success signal
\* SetAuthenticated(true), as directWrites records it
DirectWrite(fn, v) ==
    IF fn = "SetAuthenticated"
    THEN IF v THEN {} ELSE {"SetAuthenticated(false)"}
    ELSE {fn}

\* srv.SetAuthenticated(v) called by the program that owns the server; with
\* v = true it is the authentication success signal delivered directly
CallSetAuthenticated(v) ==
    /\ authenticated' = SetAuthenticated(v)
    /\ directWrites' = directWrites \cup DirectWrite("SetAuthenticated", v)
    /\ UNCHANGED <<apiVars, storeVars, syncOut, syncing, syncRunning, messagesSynced, currentQR, ctxDone,
                   syncPc, qrPc, http, syncCalls, cbCalls, lastQRArg, qrCalls,
                   cancelledBeforeAuth>>

\* srv.SetSyncing(v) called by the program that owns the server
CallSetSyncing(v) ==
    /\ syncing' = SetSyncing(v)
    /\ directWrites' = directWrites \cup DirectWrite("SetSyncing", v)
    /\ UNCHANGED <<apiVars, storeVars, syncOut, authenticated, syncRunning, messagesSynced, currentQR,
                   ctxDone, syncPc, qrPc, http, syncCalls, cbCalls, lastQRArg, qrCalls,
                   cancelledBeforeAuth>>

\* srv.SetCurrentQR(qr) called by the program that owns the server
CallSetCurrentQR(qr) ==
    /\ currentQR' = SetCurrentQR(currentQR, qr)
    /\ lastQRArg' = qr
    /\ directWrites' = directWrites \cup DirectWrite("SetCurrentQR", TRUE)
    /\ UNCHANGED <<apiVars, storeVars, syncOut, authenticated, syncing, syncRunning, messagesSynced,
                   ctxDone, syncPc, qrPc, http, syncCalls, cbCalls, qrCalls,
                   cancelledBeforeAuth>>

Setters ==
    \/ \E v \in BOOLEAN : CallSetAuthenticated(v)
    \/ \E v \in BOOLEAN : CallSetSyncing(v)
    \/ \E qr \in DirectQRCodes : CallSetCurrentQR(qr)

(* ---------------------------------------------------------------------- *)
(* StartBackgroundSync                                                     *)
(* ---------------------------------------------------------------------- *)

SyncStep(from, to) ==
    /\ syncPc = from
    /\ syncPc' = to

\* `go func() {...}()`: the goroutine exists and is about to evaluate the loop condition
StartBackgroundSync ==
    /\ SyncStep("init", "check")
    /\ UNCHANGED <<apiVars, storeVars, syncOut, flags, ctxDone, qrPc, http, history>>

\* `for !s.authenticated.Load()`
PollAuthenticated ==
    /\ syncPc = "check"
    /\ syncPc' = IF PollDone(authenticated) THEN "starting" ELSE "select"
    /\ UNCHANGED <<apiVars, storeVars, syncOut, flags, ctxDone, qrPc, http, history>>

PollCancelledIgnored ==
    /\ SyncStep("select", "check")
    /\ ctxDone
    /\ UNCHANGED <<apiVars, storeVars, syncOut, flags, ctxDone, qrPc, http, history>>

\* `case <-ctx.Done(): return`
PollCancelled ==
    /\ SyncStep("select", "done")
    /\ ctxDone
    /\ UNCHANGED <<apiVars, storeVars, syncOut, flags, ctxDone, qrPc, http, history>>

\* `case <-time.After(1 * time.Second):`
PollTick ==
    /\ SyncStep("select", "check")
    /\ UNCHANGED <<apiVars, storeVars, syncOut, flags, ctxDone, qrPc, http, history>>

\* `fmt.Fprintln(os.Stderr, "Starting background sync...")`
PrintStarting ==
    /\ SyncStep("starting", "storeRunning")
    /\ syncLog' = Append(syncLog, StartingLine)
    /\ UNCHANGED <<apiVars, storeVars, syncResult, flags, ctxDone, qrPc, http, history>>

\* `s.syncRunning.Store(true)`
StoreSyncRunning ==
    /\ SyncStep("storeRunning", "setSyncing")
    /\ syncRunning' = TRUE
    /\ UNCHANGED <<apiVars, storeVars, syncOut, authenticated, syncing, messagesSynced, currentQR, ctxDone,
                   qrPc, http, history>>

\* `s.SetSyncing(true)`
StoreSyncing ==
    /\ SyncStep("setSyncing", "callSync")
    /\ syncing' = SetSyncing(TRUE)
    /\ UNCHANGED <<apiVars, storeVars, syncOut, authenticated, syncRunning, messagesSynced, currentQR, ctxDone,
                   qrPc, http, history>>

\* `s.app.Sync(ctx, func() {...})` is entered
CallSync ==
    /\ SyncStep("callSync", "inSync")
    /\ syncCalls' = syncCalls + 1
    /\ UNCHANGED <<apiVars, storeVars, syncOut, flags, ctxDone, qrPc, http, cbCalls, lastQRArg,
                   qrCalls, cancelledBeforeAuth, directWrites>>

\* the provider invokes the callback: `s.messagesSynced.Add(1)`
OnMessage ==
    /\ syncPc = "inSync"
    /\ cbCalls < MaxCallbacks
    /\ cbCalls' = cbCalls + 1
    /\ messagesSynced' = AtomicAdd(messagesSynced, 1)
    /\ UNCHANGED <<apiVars, storeVars, syncOut, authenticated, syncing, syncRunning, currentQR, ctxDone,
                   syncPc, qrPc, http, syncCalls, lastQRArg,
                   qrCalls, cancelledBeforeAuth, directWrites>>

\* app.Sync returns: on cancellation, or by itself (normally or with a failure);
\* the call statement drops the returned value
SyncReturns ==
    /\ SyncStep("inSync", "deferRunning")
    /\ \E res \in SyncResults : syncResult' = res
    /\ UNCHANGED <<apiVars, storeVars, syncLog, flags, ctxDone, qrPc, http, history>>

\* deferred `s.syncRunning.Store(false)`
DeferSyncRunning ==
    /\ SyncStep("deferRunning", "deferSyncing")
    /\ syncRunning' = FALSE
    /\ UNCHANGED <<apiVars, storeVars, syncOut, authenticated, syncing, messagesSynced, currentQR, ctxDone,
                   qrPc, http, history>>

DeferSyncingSkipped ==
    /\ SyncStep("deferSyncing", "done")
    /\ UNCHANGED <<apiVars, storeVars, syncOut, flags, ctxDone, qrPc, http, history>>

DeferSyncingRetry ==
    /\ SyncStep("deferSyncing", "check")
    /\ syncing' = SetSyncing(FALSE)
    /\ UNCHANGED <<apiVars, storeVars, syncOut, authenticated, syncRunning, messagesSynced, currentQR, ctxDone,
                   qrPc, http, history>>

\* deferred `s.SetSyncing(false)`, then the goroutine ends
DeferSyncing ==
    /\ SyncStep("deferSyncing", "done")
    /\ syncing' = SetSyncing(FALSE)
    /\ UNCHANGED <<apiVars, storeVars, syncOut, authenticated, syncRunning, messagesSynced, currentQR, ctxDone,
                   qrPc, http, history>>

SyncLoop ==
    \/ StartBackgroundSync
    \/ PollAuthenticated
    \/ PollCancelled
    \/ PollTick
    \/ PrintStarting
    \/ StoreSyncRunning
    \/ StoreSyncing
    \/ CallSync
    \/ OnMessage
    \/ SyncReturns
    \/ DeferSyncRunning
    \/ DeferSyncing

(* ---------------------------------------------------------------------- *)
(* StartQRAuth                                                             *)
(* ---------------------------------------------------------------------- *)

\* `go func() { err := auth.AuthWithQRCallback(ctx, onQR, onSuccess) ...`
StartQRAuth ==
    /\ qrPc = "init"
    /\ qrPc' = "auth"
    /\ UNCHANGED <<apiVars, storeVars, syncOut, flags, ctxDone, syncPc, http, history>>

\* onQR: `s.SetCurrentQR(code)`
OnQR(code) ==
    /\ qrPc = "auth"
    /\ qrCalls < MaxQRCalls
    /\ qrCalls' = qrCalls + 1
    /\ currentQR' = SetCurrentQR(currentQR, code)
    /\ lastQRArg' = code
    /\ UNCHANGED <<apiVars, storeVars, syncOut, authenticated, syncing, syncRunning, messagesSynced, ctxDone,
                   syncPc, qrPc, http, syncCalls, cbCalls, cancelledBeforeAuth, directWrites>>

\* onSuccess, first statement: `s.SetAuthenticated(true)`
OnSuccessSetAuthenticated ==
    /\ qrPc = "auth"
    /\ qrPc' = "success"
    /\ authenticated' = SetAuthenticated(TRUE)
    /\ UNCHANGED <<apiVars, storeVars, syncOut, syncing, syncRunning, messagesSynced, currentQR, ctxDone,
                   syncPc, http, history>>

OnSuccessKeepQR ==
    /\ qrPc = "success"
    /\ qrPc' = "done"
    /\ UNCHANGED <<apiVars, storeVars, syncOut, flags, ctxDone, syncPc, http, history>>

\* onSuccess, second statement: `s.SetCurrentQR("")`, then the callback returns
OnSuccessClearQR ==
    /\ qrPc = "success"
    /\ qrPc' = "done"
    /\ currentQR' = SetCurrentQR(currentQR, "")
    /\ lastQRArg' = ""
    /\ UNCHANGED <<apiVars, storeVars, syncOut, authenticated, syncing, syncRunning, messagesSynced, ctxDone,
                   syncPc, http, syncCalls, cbCalls, qrCalls, cancelledBeforeAuth, directWrites>>

\* AuthWithQRCallback returns an error (also when ctx is cancelled) without success
AuthFails ==
    /\ qrPc = "auth"
    /\ qrPc' = "failed"
    /\ UNCHANGED <<apiVars, storeVars, syncOut, flags, ctxDone, syncPc, http, history>>

QRAuth ==
    \/ StartQRAuth
    \/ \E code \in QRCodes : OnQR(code)
    \/ OnSuccessSetAuthenticated
    \/ OnSuccessClearQR
    \/ AuthFails

(* ---------------------------------------------------------------------- *)
(* String helpers (Go's strings package)                                   *)
(* ---------------------------------------------------------------------- *)

\* strings.HasPrefix
HasPrefix(s, prefix) ==
    /\ Len(s) >= Len(prefix)
    /\ SubSeq(s, 1, Len(prefix)) = prefix

\* strings.HasSuffix
HasSuffix(s, suffix) ==
    /\ Len(s) >= Len(suffix)
    /\ SubSeq(s, Len(s) - Len(suffix) + 1, Len(s)) = suffix

\* strings.TrimPrefix
TrimPrefix(s, prefix) ==
    IF HasPrefix(s, prefix) THEN SubSeq(s, Len(prefix) + 1, Len(s)) ELSE s

\* strings.Contains
Contains(s, sub) ==
    \E i \in 0..(Len(s) - Len(sub)) : SubSeq(s, i + 1, i + Len(sub)) = sub

\* strings.Index: 0-based position of the first occurrence, -1 if none
Index(s, sub) ==
    IF Contains(s, sub)
    THEN CHOOSE i \in 0..(Len(s) - Len(sub)) :
            /\ SubSeq(s, i + 1, i + Len(sub)) = sub
            /\ \A j \in 0..(i - 1) : SubSeq(s, j + 1, j + Len(sub)) # sub
    ELSE -1

(* ---------------------------------------------------------------------- *)
(* PhoneFilter (filter.go)                                                 *)
(* ---------------------------------------------------------------------- *)

\* number of trailing characters the filter compares
SuffixLen == 6

\* func NewPhoneFilter(whitelist, blacklist []string) *PhoneFilter
NewPhoneFilter(whitelist, blacklist) ==
    [whitelist |-> whitelist, blacklist |-> blacklist]


\* func extractSuffix(jid string) string
extractSuffix(jid) ==
    LET at    == Index(jid, "@")
        phone == IF at >= 0 THEN SubSeq(jid, 1, at) ELSE jid
    IN  IF Len(phone) > SuffixLen
        THEN SubSeq(phone, Len(phone) - SuffixLen + 1, Len(phone))
        ELSE phone

\* func matchesAny(suffix string, entries []string) bool
matchesAny(suffix, entries) ==
    \E i \in 1..Len(entries.items) :
        LET entry       == entries.items[i]
            entrySuffix == IF Len(entry) > SuffixLen
                           THEN SubSeq(entry, Len(entry) - SuffixLen + 1, Len(entry))
                           ELSE entry
        IN  suffix = entrySuffix

IsAllowedListsFirst(f, jid) ==
    LET suffix == extractSuffix(jid)
    IN  IF Len(f.whitelist.items) > 0 THEN matchesAny(suffix, f.whitelist)
        ELSE IF Len(f.blacklist.items) > 0 THEN ~matchesAny(suffix, f.blacklist)
        ELSE TRUE

\* func (f *PhoneFilter) IsAllowed(jid string) bool
IsAllowed(f, jid) ==
    IF HasSuffix(jid, "@g.us")
    THEN TRUE
    ELSE LET suffix == extractSuffix(jid)
         IN  IF Len(f.whitelist.items) > 0 THEN matchesAny(suffix, f.whitelist)
             ELSE IF Len(f.blacklist.items) > 0 THEN ~matchesAny(suffix, f.blacklist)
             ELSE TRUE

\* the slice one loop of JIDSuffixes builds by append, starting from nil
SuffixPatterns(entries) ==
    IF Len(entries.items) = 0
    THEN NilSlice
    ELSE Slice([i \in 1..Len(entries.items) |->
                  LET entry  == entries.items[i]
                      suffix == IF Len(entry) > SuffixLen
                                THEN SubSeq(entry, Len(entry) - SuffixLen + 1, Len(entry))
                                ELSE entry
                  IN  suffix \o "@"])

\* func (f *PhoneFilter) JIDSuffixes() (includeJIDs, excludeJIDs []string)
JIDSuffixes(f) ==
    [includeJIDs |-> SuffixPatterns(f.whitelist),
     excludeJIDs |-> SuffixPatterns(f.blacklist)]

(* ---------------------------------------------------------------------- *)
(* HTTP handlers (server.go, middleware.go, handlers)                      *)
(* ---------------------------------------------------------------------- *)

\* default of the "limit" query parameter
DefaultLimit == 20

\* default of the "page" query parameter
DefaultPage == 0

\* what the application returns; the handlers write it to the response as it is
AppResult == [text |-> "app-result"]

\* an error response carries no data
NoBody == [text |-> ""]

Resp(code, error, body) == [code |-> code, error |-> error, body |-> body]

\* a *string argument: nil, or a pointer to v
NilString == <<>>

PtrString(v) == <<v>>

IsDigit(c) == \E d \in 1..10 : SubSeq("0123456789", d, d) = c

DigitValue(c) == (CHOOSE d \in 1..10 : SubSeq("0123456789", d, d) = c) - 1

RECURSIVE DecimalValue(_)
DecimalValue(s) ==
    IF Len(s) = 0
    THEN 0
    ELSE 10 * DecimalValue(SubSeq(s, 1, Len(s) - 1))
         + DigitValue(SubSeq(s, Len(s), Len(s)))

\* strconv.Atoi on strings short enough not to overflow an int:
\* an optional sign followed by one or more decimal digits
Atoi(v) ==
    LET signed == Len(v) > 0 /\ SubSeq(v, 1, 1) \in {"+", "-"}
        digits == IF signed THEN SubSeq(v, 2, Len(v)) ELSE v
        ok     == /\ Len(digits) > 0
                  /\ \A i \in 1..Len(digits) : IsDigit(SubSeq(digits, i, i))
        n      == IF ~ok THEN 0
                  ELSE IF signed /\ SubSeq(v, 1, 1) = "-"
                       THEN 0 - DecimalValue(digits)
                       ELSE DecimalValue(digits)
    IN  [err |-> ~ok, n |-> n]


\* func parseIntParam(r *http.Request, name string, defaultVal int) int,
\* v being r.URL.Query().Get(name)
parseIntParam(v, defaultVal) ==
    IF v = "" THEN defaultVal
    ELSE IF Atoi(v).err \/ Atoi(v).n < 0 THEN defaultVal
         ELSE Atoi(v).n

CapLimitOff(limit, c) == limit

\* `if limit > s.Config.MaxMessages { limit = s.Config.MaxMessages }`
CapLimit(limit, c) == IF limit > c.MaxMessages THEN c.MaxMessages ELSE limit

\* func (s *Server) computeAfter() *time.Time: whether a cutoff is passed
computeAfter(c) == c.MaxHours > 0

\* s.phoneFilter, built by NewServer from the configuration
PhoneFilterOf(c) == NewPhoneFilter(c.PhoneWhitelist, c.PhoneBlacklist)

\* what a handler produced: the response, and the application calls it made
Outcome(handler, resp, calls) == [handler |-> handler, resp |-> resp, calls |-> calls]

\* func (s *Server) handleHealthz
handleHealthz == Outcome("handleHealthz", Resp(200, "", [text |-> "ok"]), <<>>)

\* what handleReadyz writes once it has loaded the two flags
handleReadyzWrite(a, s) ==
    LET r == ReadyzResponse(a, s)
    IN  Outcome("handleReadyz", Resp(r.code, r.reason, [text |-> r.status]), <<>>)

\* what handleSyncStatus writes once it has loaded the flag and the counter
handleSyncStatusWrite(running, synced) ==
    Outcome("handleSyncStatus",
            Resp(200, "", [running |-> running, messages_synced |-> synced]), <<>>)

\* the outcome of a handler at its first call of s.app: with a nil
\* AppService the nil dereference panics before anything is written, and no
\* response is produced
AppCall(c, handler, outcome) ==
    IF c.app = "nil"
    THEN Outcome(handler, Resp(0, "panic: nil pointer dereference", NoBody), <<>>)
    ELSE outcome

\* func (s *Server) handleListMessages
handleListMessages(c, r) ==
    LET limit == CapLimit(parseIntParam(r.limit, DefaultLimit), c)
        page  == parseIntParam(r.page, DefaultPage)
        chat  == IF r.chat_jid # "" THEN PtrString(r.chat_jid) ELSE NilString
        jids  == JIDSuffixes(PhoneFilterOf(c))
    IN  AppCall(c, "handleListMessages",
          Outcome("handleListMessages", Resp(200, "", AppResult),
                <<[fn |-> "ListMessages", chatJID |-> chat, query |-> NilString,
                   limit |-> limit, page |-> page,
                   includeJIDs |-> jids.includeJIDs, excludeJIDs |-> jids.excludeJIDs,
                   after |-> computeAfter(c)]>>))

\* func (s *Server) handleSearchMessages
handleSearchMessages(c, r) ==
    IF r.query = ""
    THEN Outcome("handleSearchMessages", Resp(400, "query parameter required", NoBody), <<>>)
    ELSE LET limit == CapLimit(parseIntParam(r.limit, DefaultLimit), c)
             page  == parseIntParam(r.page, DefaultPage)
             jids  == JIDSuffixes(PhoneFilterOf(c))
         IN  AppCall(c, "handleSearchMessages",
               Outcome("handleSearchMessages", Resp(200, "", AppResult),
                     <<[fn |-> "ListMessages", chatJID |-> NilString,
                        query |-> PtrString(r.query),
                        limit |-> limit, page |-> page,
                        includeJIDs |-> jids.includeJIDs,
                        excludeJIDs |-> jids.excludeJIDs,
                        after |-> computeAfter(c)]>>))

\* func (s *Server) handleListChats
handleListChats(c, r) ==
    LET limit == CapLimit(parseIntParam(r.limit, DefaultLimit), c)
        page  == parseIntParam(r.page, DefaultPage)
        query == IF r.query # "" THEN PtrString(r.query) ELSE NilString
        jids  == JIDSuffixes(PhoneFilterOf(c))
    IN  AppCall(c, "handleListChats",
          Outcome("handleListChats", Resp(200, "", AppResult),
                <<[fn |-> "ListChats", query |-> query,
                   limit |-> limit, page |-> page,
                   includeJIDs |-> jids.includeJIDs,
                   excludeJIDs |-> jids.excludeJIDs]>>))

\* func (s *Server) handleSearchContacts
handleSearchContacts(c, r) ==
    IF r.query = ""
    THEN Outcome("handleSearchContacts", Resp(400, "query parameter required", NoBody), <<>>)
    ELSE LET jids == JIDSuffixes(PhoneFilterOf(c))
         IN  AppCall(c, "handleSearchContacts",
               Outcome("handleSearchContacts", Resp(200, "", AppResult),
                     <<[fn |-> "SearchContacts", query |-> r.query,
                        includeJIDs |-> jids.includeJIDs,
                        excludeJIDs |-> jids.excludeJIDs]>>))

handleSendMessageUnfiltered(c, r) ==
    IF ~r.bodyValid
    THEN Outcome("handleSendMessage", Resp(400, "invalid JSON body", NoBody), <<>>)
    ELSE IF r.to = "" \/ r.message = ""
    THEN Outcome("handleSendMessage",
                 Resp(400, "'to' and 'message' fields are required", NoBody), <<>>)
    ELSE AppCall(c, "handleSendMessage",
           Outcome("handleSendMessage", Resp(200, "", AppResult),
                 <<[fn |-> "SendMessage", recipient |-> r.to, message |-> r.message]>>))

\* func (s *Server) handleSendMessage; r.bodyValid: the body decodes as JSON
handleSendMessage(c, r) ==
    IF ~r.bodyValid
    THEN Outcome("handleSendMessage", Resp(400, "invalid JSON body", NoBody), <<>>)
    ELSE IF r.to = "" \/ r.message = ""
    THEN Outcome("handleSendMessage",
                 Resp(400, "'to' and 'message' fields are required", NoBody), <<>>)
    ELSE LET recipient == IF ~Contains(r.to, "@")
                          THEN r.to \o "@s.whatsapp.net"
                          ELSE r.to
         IN  IF ~IsAllowed(PhoneFilterOf(c), recipient)
             THEN Outcome("handleSendMessage", Resp(403, "recipient not allowed", NoBody), <<>>)
             ELSE AppCall(c, "handleSendMessage",
                    Outcome("handleSendMessage", Resp(200, "", AppResult),
                          <<[fn |-> "SendMessage", recipient |-> r.to,
                             message |-> r.message]>>))

\* func (s *Server) handleAuthStatus; r.appAuthenticated and r.appConnected
\* are what the application answers while the request is served
handleAuthStatus(c, r) ==
    IF c.app # "nil"
    THEN Outcome("handleAuthStatus",
                 Resp(200, "", [authenticated |-> r.appAuthenticated,
                                connected |-> r.appConnected]),
                 <<[fn |-> "IsAuthenticated"], [fn |-> "IsConnected"]>>)
    ELSE Outcome("handleAuthStatus",
                 Resp(200, "", [authenticated |-> FALSE, connected |-> FALSE]), <<>>)

\* go-qrcode's data mode of one character of the content: 1 numeric,
\* 2 alphanumeric, 3 byte (the order in which the modes are compared)
dataMode(c) ==
    IF c \in {"0", "1", "2", "3", "4", "5", "6", "7", "8", "9"}
    THEN 1
    ELSE IF c \in {"A", "B", "C", "D", "E", "F", "G", "H", "I", "J", "K", "L", "M",
                   "N", "O", "P", "Q", "R", "S", "T", "U", "V", "W", "X", "Y", "Z",
                   " ", "$", "%", "*", "+", "-", ".", "/", ":"}
    THEN 2
    ELSE 3

\* the data encoders qrcode.New tries in turn, for versions 1-9, 10-26 and
\* 27-40: the bits of the character count of a numeric, alphanumeric and byte
\* segment, and the data bits of the encoder's largest version at level Medium
dataEncoders ==
    << [charCountBits |-> <<10, 9, 8>>,   numDataBits |-> 1456],
       [charCountBits |-> <<12, 11, 16>>, numDataBits |-> 8496],
       [charCountBits |-> <<14, 13, 16>>, numDataBits |-> 18672] >>

\* (*dataEncoder).encodedLength: the bits of a segment of n characters in a
\* mode, an error when n does not fit the character count
encodedLength(e, mode, n) ==
    [err    |-> n > 2 ^ e.charCountBits[mode] - 1,
     length |-> 4 + e.charCountBits[mode] +
                (CASE mode = 1 -> 10 * (n \div 3) +
                                  (IF n % 3 # 0 THEN 1 + 3 * (n % 3) ELSE 0)
                   [] mode = 2 -> 11 * (n \div 2) + 6 * (n % 2)
                   [] mode = 3 -> 8 * n)]

\* (*dataEncoder).classifyDataModes: the content cut into segments of
\* consecutive characters of one mode, each given by its mode and its length
classifyDataModes(data) ==
    LET modes  == [i \in 1..Len(data) |-> dataMode(SubSeq(data, i, i))]
        starts == { i \in 1..Len(data) : i = 1 \/ modes[i] # modes[i - 1] }
        RECURSIVE From(_)
        From(i) ==
            LET later == { j \in starts : j > i }
                next  == IF later = {}
                         THEN Len(data) + 1
                         ELSE CHOOSE j \in later : \A k \in later : j <= k
            IN  <<[dataMode |-> modes[i], n |-> next - i]>> \o
                (IF later = {} THEN <<>> ELSE From(next))
    IN  IF Len(data) = 0 THEN <<>> ELSE From(1)

\* (*dataEncoder).optimiseDataModes: a segment takes in the segments after
\* it while their mode is not higher than its own and the coalesced segment
\* is shorter than the two apart
RECURSIVE optimiseDataModes(_, _)
optimiseDataModes(e, actual) ==
    IF Len(actual) = 0
    THEN [err |-> FALSE, segments |-> <<>>]
    ELSE IF Len(actual) = 1
    THEN [err |-> FALSE, segments |-> actual]
    ELSE LET cur       == actual[1]
             nxt       == actual[2]
             coalesced == encodedLength(e, cur.dataMode, cur.n + nxt.n)
             separate1 == encodedLength(e, cur.dataMode, cur.n)
             separate2 == encodedLength(e, nxt.dataMode, nxt.n)
         IN  IF nxt.dataMode > cur.dataMode
             THEN LET rest == optimiseDataModes(e, Tail(actual))
                  IN  [err |-> rest.err, segments |-> <<cur>> \o rest.segments]
             ELSE IF coalesced.err \/ separate1.err \/ separate2.err
             THEN [err |-> TRUE, segments |-> <<>>]
             ELSE IF coalesced.length < separate1.length + separate2.length
             THEN optimiseDataModes(e, <<[dataMode |-> cur.dataMode, n |-> cur.n + nxt.n]>>
                                          \o Tail(Tail(actual)))
             ELSE LET rest == optimiseDataModes(e, Tail(actual))
                  IN  [err |-> rest.err, segments |-> <<cur>> \o rest.segments]

\* (*dataEncoder).encode: the bits of the encoded content, the optimised
\* segments or, when that is not longer, one segment in the highest mode the
\* content requires; an error for empty content
encode(e, data) ==
    IF Len(data) = 0
    THEN [err |-> TRUE, length |-> 0]
    ELSE LET actual    == classifyDataModes(data)
             highest   == CHOOSE m \in 1..3 :
                              /\ \E i \in 1..Len(actual) : actual[i].dataMode = m
                              /\ \A i \in 1..Len(actual) : actual[i].dataMode <= m
             optimised == optimiseDataModes(e, actual)
             RECURSIVE SumLengths(_)
             SumLengths(segments) ==
                 IF Len(segments) = 0
                 THEN [err |-> FALSE, length |-> 0]
                 ELSE LET first == encodedLength(e, segments[1].dataMode, segments[1].n)
                          rest  == SumLengths(Tail(segments))
                      IN  [err |-> first.err \/ rest.err,
                           length |-> first.length + rest.length]
             separate  == SumLengths(optimised.segments)
             single    == encodedLength(e, highest, Len(data))
         IN  IF optimised.err \/ separate.err \/ single.err
             THEN [err |-> TRUE, length |-> 0]
             ELSE [err |-> FALSE,
                   length |-> IF single.length <= separate.length
                              THEN single.length ELSE separate.length]

\* whether qrcode.Encode(qr, qrcode.Medium, 256) returns an error: no encoder
\* encodes the content into the data bits of one of its versions
qrcodeEncodeFails(qr) ==
    \A t \in 1..Len(dataEncoders) :
        LET encoded == encode(dataEncoders[t], qr)
        IN  encoded.err \/ encoded.length > dataEncoders[t].numDataBits

\* func (s *Server) handleQRImage
handleQRImage(c, r) ==
    IF c.app # "nil" /\ r.appAuthenticated
    THEN Outcome("handleQRImage", Resp(200, "", [text |-> "already authenticated"]),
                 <<[fn |-> "IsAuthenticated"]>>)
    ELSE LET calls == IF c.app # "nil" THEN <<[fn |-> "IsAuthenticated"]>> ELSE <<>>
             qr    == GetCurrentQR(currentQR)
         IN  IF qr = ""
             THEN Outcome("handleQRImage",
                          Resp(503, "no QR code available, try again shortly", NoBody),
                          calls)
             ELSE IF qrcodeEncodeFails(qr)
             THEN Outcome("handleQRImage",
                          Resp(500, "failed to generate QR code image", NoBody), calls)
             ELSE Outcome("handleQRImage", Resp(200, "", [text |-> "image/png"]), calls)

\* the handlers that complete in one step of the model: they read the
\* coordinator at most once
RunHandler(name, c, r) ==
    CASE name = "handleHealthz"        -> handleHealthz
      [] name = "handleListMessages"   -> handleListMessages(c, r)
      [] name = "handleSearchMessages" -> handleSearchMessages(c, r)
      [] name = "handleListChats"      -> handleListChats(c, r)
      [] name = "handleSearchContacts" -> handleSearchContacts(c, r)
      [] name = "handleSendMessage"    -> handleSendMessage(c, r)
      [] name = "handleAuthStatus"     -> handleAuthStatus(c, r)
      [] name = "handleQRImage"        -> handleQRImage(c, r)

(* ---------------------------------------------------------------------- *)
(* Routing (net/http ServeMux as registerRoutes sets it up)                *)
(* ---------------------------------------------------------------------- *)

\* the elements of a path, split at its slashes
RECURSIVE SplitPath(_)
SplitPath(p) ==
    IF ~Contains(p, "/")
    THEN <<p>>
    ELSE LET i == Index(p, "/")
         IN  <<SubSeq(p, 1, i)>> \o SplitPath(SubSeq(p, i + 2, Len(p)))

\* path.Clean on a rooted path, element by element: empty and "." elements
\* are dropped, ".." removes the element before it (nothing at the root)
RECURSIVE CleanElements(_, _)
CleanElements(elems, out) ==
    IF Len(elems) = 0
    THEN out
    ELSE LET e == Head(elems)
         IN  IF e = "" \/ e = "."
             THEN CleanElements(Tail(elems), out)
             ELSE IF e = ".."
             THEN CleanElements(Tail(elems),
                                IF Len(out) = 0 THEN out ELSE SubSeq(out, 1, Len(out) - 1))
             ELSE CleanElements(Tail(elems), Append(out, e))

RECURSIVE JoinPath(_)
JoinPath(elems) ==
    IF Len(elems) = 0 THEN "" ELSE "/" \o Head(elems) \o JoinPath(Tail(elems))

\* net/http cleanPath: path.Clean of the rooted path, a trailing slash kept
cleanPath(p) ==
    IF p = ""
    THEN "/"
    ELSE LET q      == IF SubSeq(p, 1, 1) # "/" THEN "/" \o p ELSE p
             joined == JoinPath(CleanElements(SplitPath(q), <<>>))
             np     == IF joined = "" THEN "/" ELSE joined
         IN  IF SubSeq(q, Len(q), Len(q)) = "/" /\ np # "/"
             THEN IF Len(q) = Len(np) + 1 /\ HasPrefix(q, np) THEN q ELSE np \o "/"
             ELSE np

NotFound == Outcome("none", Resp(404, "404 page not found", NoBody), <<>>)

MethodNotAllowed == Outcome("none", Resp(405, "Method Not Allowed", NoBody), <<>>)

\* http.RedirectHandler(location, http.StatusMovedPermanently)
Redirect(location) == Outcome("none", Resp(301, "", [text |-> location]), <<>>)

\* what a mux or the middleware decides: it answers by itself, or it calls a handler
Reply(out) == [kind |-> "reply", out |-> out]

Handler(name) == [kind |-> "handler", name |-> name]

\* the patterns registered on s.mux by registerRoutes
MuxRoutes ==
    { [method |-> "GET", path |-> "/healthz",  handler |-> "handleHealthz"],
      [method |-> "GET", path |-> "/readyz",   handler |-> "handleReadyz"],
      [method |-> "",    path |-> "/api/v1/",  handler |-> "authMiddleware"] }

\* the patterns registered on apiMux by registerRoutes
ApiRoutes ==
    { [method |-> "GET",  path |-> "/messages",        handler |-> "handleListMessages"],
      [method |-> "GET",  path |-> "/messages/search", handler |-> "handleSearchMessages"],
      [method |-> "GET",  path |-> "/chats",           handler |-> "handleListChats"],
      [method |-> "GET",  path |-> "/contacts",        handler |-> "handleSearchContacts"],
      [method |-> "POST", path |-> "/messages/send",   handler |-> "handleSendMessage"],
      [method |-> "GET",  path |-> "/auth/status",     handler |-> "handleAuthStatus"],
      [method |-> "GET",  path |-> "/auth/qr/image",   handler |-> "handleQRImage"],
      [method |-> "GET",  path |-> "/sync/status",     handler |-> "handleSyncStatus"] }

\* a pattern's path matches a request path: a pattern ending in "/" matches
\* every path under it, any other pattern the equal path
PathMatches(rt, path) ==
    IF HasSuffix(rt.path, "/") THEN HasPrefix(path, rt.path) ELSE path = rt.path

\* a pattern's method matches a request method: no method matches all, and
\* GET also matches HEAD
MethodMatches(rt, method) ==
    \/ rt.method = ""
    \/ rt.method = method
    \/ (rt.method = "GET" /\ method = "HEAD")

\* (*ServeMux).findHandler on a path without escapes; no two of the
\* registered patterns match the same request
ServeMuxFind(routes, method, escapedPath) ==
    LET \* the path of a CONNECT request is not canonicalized
        path    == IF method = "CONNECT" THEN escapedPath ELSE cleanPath(escapedPath)
        matched == { rt \in routes : PathMatches(rt, path) /\ MethodMatches(rt, method) }
        \* matchOrRedirect: the path has no match of its own but is, with a
        \* slash appended, the root of a registered subtree
        subtree == /\ ~HasSuffix(path, "/")
                   /\ matched = {}
                   /\ \E rt \in routes :
                         rt.path = path \o "/" /\ MethodMatches(rt, method)
    IN  IF subtree
        THEN Reply(Redirect(cleanPath(escapedPath) \o "/"))
        ELSE IF path # escapedPath
        THEN Reply(Redirect(path))
        ELSE IF matched # {}
        THEN Handler((CHOOSE rt \in matched : TRUE).handler)
        ELSE IF \E rt \in routes :
                   \/ PathMatches(rt, path)
                   \/ (~HasSuffix(path, "/") /\ PathMatches(rt, path \o "/"))
        THEN Reply(MethodNotAllowed)
        ELSE Reply(NotFound)

\* http.StripPrefix("/api/v1", apiMux)
StripPrefix(prefix, r) ==
    IF HasPrefix(r.path, prefix)
    THEN ServeMuxFind(ApiRoutes, r.method, TrimPrefix(r.path, prefix))
    ELSE Reply(NotFound)

\* the key authMiddleware compares: X-API-Key, else the Bearer token
PresentedKey(r) ==
    IF r.xApiKey # "" THEN r.xApiKey
    ELSE IF HasPrefix(r.authorization, "Bearer ")
         THEN TrimPrefix(r.authorization, "Bearer ")
         ELSE ""


KeyAcceptedPrefix(c, key) == key # "" /\ HasPrefix(c.APIKey, key)

\* the negation of `key == "" || subtle.ConstantTimeCompare(key, APIKey) != 1`
KeyAccepted(c, key) == key # "" /\ key = c.APIKey

\* func (s *Server) authMiddleware(next http.Handler) http.Handler,
\* next being http.StripPrefix("/api/v1", apiMux)
authMiddleware(c, r) ==
    IF ~KeyAccepted(c, PresentedKey(r))
    THEN Reply(Outcome("none", Resp(401, "unauthorized", NoBody), <<>>))
    ELSE StripPrefix("/api/v1", r)

\* s.mux.ServeHTTP with the patterns registered by registerRoutes: the
\* reply of a mux or of the middleware, or the handler that is called
MuxServe(c, r) ==
    LET route == ServeMuxFind(MuxRoutes, r.method, r.path)
    IN  IF route.kind = "handler" /\ route.name = "authMiddleware"
        THEN authMiddleware(c, r)
        ELSE route

(* ---------------------------------------------------------------------- *)
(* Requests and configurations served by the HTTP specification            *)
(* ---------------------------------------------------------------------- *)

\* longest allow-list and deny-list
MaxEntries == 2

\* PHONE_WHITELIST / PHONE_BLACKLIST entries: a number longer than the
\* compared suffix, a shorter one, and one written with a domain part
Entries == {"7123456", "12345", "123456@c.us"}

EntryLists ==
    {NilSlice} \cup
    { Slice(q) : q \in UNION { [1..n -> Entries] : n \in 0..MaxEntries } }

\* addresses given to IsAllowed
JIDs ==
    { "123456@s.whatsapp.net", "44123456@s.whatsapp.net", "7123456@s.whatsapp.net",
      "12345@s.whatsapp.net", "912345@s.whatsapp.net", "654321@s.whatsapp.net",
      "123456", "654321", "@s.whatsapp.net", "123456@c.us",
      "99123456@g.us", "12345@g.us", "1@g.us" }

\* arguments of NewServer: every pair of lists with the usual key and
\* limits, every key / limit setting without lists, and a nil AppService
Configs ==
    { [APIKey |-> "k1", MaxMessages |-> 100, MaxHours |-> 48,
       PhoneWhitelist |-> w, PhoneBlacklist |-> b, app |-> "app"] :
          w \in EntryLists, b \in EntryLists }
    \cup
    { [APIKey |-> k, MaxMessages |-> m, MaxHours |-> h,
       PhoneWhitelist |-> NilSlice, PhoneBlacklist |-> NilSlice, app |-> "app"] :
          k \in {"", "k1"}, m \in {10, 100}, h \in {0, 48} }
    \cup
    { [APIKey |-> "k1", MaxMessages |-> 100, MaxHours |-> 48,
       PhoneWhitelist |-> NilSlice, PhoneBlacklist |-> NilSlice, app |-> "nil"] }

BaseRequest ==
    [method |-> "GET", path |-> "/healthz", xApiKey |-> "", authorization |-> "",
     limit |-> "", page |-> "", query |-> "", chat_jid |-> "",
     bodyValid |-> TRUE, to |-> "", message |-> "",
     appAuthenticated |-> FALSE, appConnected |-> FALSE]

\* X-API-Key and Authorization headers of a request
KeyCases ==
    { <<"", "">>, <<"k1", "">>, <<"k2", "">>, <<"k", "">>,
      <<"", "Bearer k1">>, <<"", "Bearer k2">>, <<"", "Bearer ">>,
      <<"", "Basic k1">>, <<"", "bearer k1">>, <<"", "k1">>,
      <<"k2", "Bearer k1">>, <<"k1", "Bearer k2">> }

Targets ==
    { <<"GET", "/healthz">>, <<"GET", "/readyz">>, <<"GET", "/nope">>,
      <<"GET", "/api/v1/messages">>, <<"GET", "/api/v1/messages/search">>,
      <<"GET", "/api/v1/chats">>, <<"GET", "/api/v1/contacts">>,
      <<"POST", "/api/v1/messages/send">>, <<"GET", "/api/v1/messages/send">>,
      <<"GET", "/api/v1/auth/status">>, <<"GET", "/api/v1/auth/qr/image">>,
      <<"GET", "/api/v1/sync/status">>, <<"GET", "/api/v1/nope">> }

\* every target with every combination of key headers
KeyRequests ==
    { [BaseRequest EXCEPT !.method = t[1], !.path = t[2],
                          !.xApiKey = k[1], !.authorization = k[2],
                          !.query = "hello", !.to = "99123456@g.us", !.message = "hi"] :
          t \in Targets, k \in KeyCases }

SendRequests ==
    { [BaseRequest EXCEPT !.method = "POST", !.path = "/api/v1/messages/send",
                          !.xApiKey = "k1", !.to = to, !.message = m, !.bodyValid = v] :
          to \in {"", "123456", "654321", "12345", "123456@s.whatsapp.net",
                  "7123456@c.us", "99123456@g.us"},
          m \in {"", "hi"}, v \in BOOLEAN }

ListRequests ==
    { [BaseRequest EXCEPT !.path = p, !.xApiKey = "k1", !.query = q,
                          !.limit = l, !.page = g] :
          p \in {"/api/v1/messages", "/api/v1/messages/search", "/api/v1/chats"},
          q \in {"hello"},
          l \in {"", "0", "5", "50", "500", "-1", "+7", "abc", "1x", "-"},
          g \in {"", "0", "3", "-2", "x"} }

OtherRequests ==
    { [BaseRequest EXCEPT !.path = p, !.xApiKey = "k1", !.chat_jid = c,
                          !.appAuthenticated = a, !.appConnected = a] :
          p \in {"/api/v1/messages", "/api/v1/messages/search", "/api/v1/chats",
                 "/api/v1/contacts", "/api/v1/auth/status", "/api/v1/auth/qr/image"},
          c \in {"", "123456@s.whatsapp.net"}, a \in BOOLEAN }

\* requests the muxes answer by themselves, or serve for another method
\* than the pattern names
RoutingRequests ==
    { [BaseRequest EXCEPT !.method = t[1], !.path = t[2], !.xApiKey = k] :
          t \in { <<"HEAD", "/healthz">>, <<"HEAD", "/readyz">>, <<"POST", "/healthz">>,
                  <<"HEAD", "/api/v1/messages">>, <<"HEAD", "/api/v1/sync/status">>,
                  <<"GET", "/api/v1">>, <<"GET", "/api/v1/">>, <<"GET", "//healthz">>,
                  <<"GET", "/api/v1//messages">>, <<"GET", "/x/../healthz">>,
                  <<"GET", "/api/v1/messages/">>, <<"GET", "/api/v1/.">>,
                  <<"GET", "/api/v1/messages/..">>, <<"GET", "/api/v1/./messages">>,
                  <<"GET", "/api/v1/..">>, <<"GET", "/api/v1/../healthz">>,
                  <<"GET", "/api/v1/.//">>, <<"POST", "/api/v1/messages/../messages/send">>,
                  <<"CONNECT", "/api/v1">>, <<"CONNECT", "/api/v1/messages">>,
                  <<"CONNECT", "/api/v1//messages">>, <<"CONNECT", "/api/v1/../healthz">> },
          k \in {"", "k1"} }

Requests ==
    KeyRequests \cup SendRequests \cup ListRequests \cup OtherRequests
        \cup RoutingRequests

\* the requests served while the sync goroutine runs: the ones whose handlers
\* read the flags and the counter
StatusRequests ==
    { [BaseRequest EXCEPT !.path = p, !.xApiKey = "k1"] :
          p \in {"/readyz", "/api/v1/sync/status"} }

\* the request served while the QR goroutine runs: its handler reads the slot
QRRequests == { [BaseRequest EXCEPT !.path = "/api/v1/auth/qr/image", !.xApiKey = "k1"] }

\* NewServer(cfg, app) for some configuration
ApiInit ==
    /\ CoordInit
    /\ cfg \in Configs
    /\ http = [pc |-> "idle"]
    /\ probe = [fn |-> "none"]
    /\ chats = {}
    /\ messages = {}
    /\ storeCall = [op |-> "none"]
    /\ tieOrder = <<>>

\* srv.mux.ServeHTTP(w, req): routing, the middleware and the handler, up to
\* the response, or up to the first of the two loads of handleReadyz
\* (`authenticated := s.authenticated.Load()`) and of handleSyncStatus
\* (`"running": s.syncRunning.Load()`)
ServeRequest(reqs) ==
    /\ http.pc = "idle"
    /\ probe.fn = "none"
    /\ \E r \in reqs :
          LET route == MuxServe(cfg, r)
          IN  http' =
                IF route.kind = "reply"
                THEN [pc |-> "served", req |-> r, out |-> route.out]
                ELSE IF route.name = "handleReadyz"
                THEN [pc |-> "loaded", req |-> r, handler |-> route.name,
                      authenticated |-> authenticated]
                ELSE IF route.name = "handleSyncStatus"
                THEN [pc |-> "loaded", req |-> r, handler |-> route.name,
                      running |-> syncRunning]
                ELSE [pc |-> "served", req |-> r,
                      out |-> RunHandler(route.name, cfg, r)]
    /\ UNCHANGED <<coordVars, cfg, probe, storeVars>>

\* handleReadyz: `syncing := s.syncing.Load()` and the response written from
\* the two values
ReadyzRespond ==
    /\ http.pc = "loaded"
    /\ http.handler = "handleReadyz"
    /\ http' = [pc |-> "served", req |-> http.req,
                authenticated |-> http.authenticated, syncing |-> syncing,
                out |-> handleReadyzWrite(http.authenticated, syncing)]
    /\ UNCHANGED <<coordVars, cfg, probe, storeVars>>

\* handleSyncStatus: `"messages_synced": s.messagesSynced.Load()` and the
\* response written from the two values
StatusRespond ==
    /\ http.pc = "loaded"
    /\ http.handler = "handleSyncStatus"
    /\ http' = [pc |-> "served", req |-> http.req,
                running |-> http.running, messages_synced |-> messagesSynced,
                out |-> handleSyncStatusWrite(http.running, messagesSynced)]
    /\ UNCHANGED <<coordVars, cfg, probe, storeVars>>

\* srv.mux.ServeHTTP returns: the response has been written, and the next
\* request may be served
FinishRequest ==
    /\ http.pc = "served"
    /\ http' = [pc |-> "idle"]
    /\ UNCHANGED <<coordVars, cfg, probe, storeVars>>

\* srv.phoneFilter.IsAllowed(jid)
CallIsAllowed ==
    /\ http.pc = "idle"
    /\ probe.fn = "none"
    /\ \E jid \in JIDs :
          probe' = [fn |-> "IsAllowed", jid |-> jid,
                    result |-> IsAllowed(PhoneFilterOf(cfg), jid)]
    /\ UNCHANGED <<coordVars, cfg, http, storeVars>>

\* srv.phoneFilter.JIDSuffixes()
CallJIDSuffixes ==
    /\ http.pc = "idle"
    /\ probe.fn = "none"
    /\ probe' = [fn |-> "JIDSuffixes", result |-> JIDSuffixes(PhoneFilterOf(cfg))]
    /\ UNCHANGED <<coordVars, cfg, http, storeVars>>

(* ---------------------------------------------------------------------- *)
(* Specifications                                                          *)
(* ---------------------------------------------------------------------- *)

\* the server with its two goroutines and the direct setter calls
Next ==
    \/ Cancel
    \/ Setters
    \/ SyncLoop
    \/ QRAuth

Spec == Init /\ [][Next]_vars

\* the sync goroutine, the direct calls of the setters of the flags it and
\* handleReadyz use, and the requests for /readyz and /api/v1/sync/status
StatusNext ==
    \/ Cancel
    \/ \E v \in BOOLEAN : CallSetAuthenticated(v)
    \/ \E v \in BOOLEAN : CallSetSyncing(v)
    \/ SyncLoop
    \/ ServeRequest(StatusRequests)
    \/ ReadyzRespond
    \/ StatusRespond
    \/ FinishRequest

StatusSpec == Init /\ [][StatusNext]_vars

\* the QR goroutine, the direct calls of SetCurrentQR, and the requests for
\* /api/v1/auth/qr/image
QRNext ==
    \/ \E qr \in DirectQRCodes : CallSetCurrentQR(qr)
    \/ QRAuth
    \/ ServeRequest(QRRequests)
    \/ FinishRequest

QRSpec == Init /\ [][QRNext]_vars

\* Scheduling of the sync goroutine: every runnable statement of the goroutine
\* is eventually executed, the one-second timer eventually fires, a select
\* whose ctx.Done() case is ready again and again eventually takes it (Go
\* chooses uniformly among the ready cases), and app.Sync returns once its
\* context is cancelled.
SyncFairness ==
    /\ WF_vars(PollAuthenticated)
    /\ WF_vars(PollTick)
    /\ SF_vars(PollCancelled)
    /\ WF_vars(PrintStarting)
    /\ WF_vars(StoreSyncRunning)
    /\ WF_vars(StoreSyncing)
    /\ WF_vars(CallSync)
    /\ WF_vars(ctxDone /\ SyncReturns)
    /\ WF_vars(DeferSyncRunning)
    /\ WF_vars(DeferSyncing)

LiveSpec == Init /\ [][Next]_vars /\ SyncFairness

\* a server on which no goroutine is started and no setter is called,
\* serving any request under any configuration
ApiNext ==
    \/ ServeRequest(Requests)
    \/ ReadyzRespond
    \/ StatusRespond
    \/ FinishRequest
    \/ CallIsAllowed
    \/ CallJIDSuffixes

ApiSpec == ApiInit /\ [][ApiNext]_vars

(* ---------------------------------------------------------------------- *)
(* Properties                                                              *)
(* ---------------------------------------------------------------------- *)

\* a setter named fn has not been called from outside the two goroutines
NoDirect(fn) == fn \notin directWrites

\* the sync goroutine has started nothing: syncRunning is false, Sync has not
\* been called, and syncing is false unless SetSyncing was called directly
SyncNotStarted ==
    /\ ~syncRunning
    /\ syncCalls = 0
    /\ NoDirect("SetSyncing") => ~syncing

ReadyzServed == http.pc = "served" /\ http.out.handler = "handleReadyz"

StatusServed == http.pc = "served" /\ http.out.handler = "handleSyncStatus"

\* C1: a completed /readyz request answers "ready" exactly when the two values
\* it loaded are both true; otherwise "not_ready", with reason "not
\* authenticated" when the loaded authenticated is false (whatever syncing
\* was) and "not syncing" when authenticated was true and syncing false.
C1_ReadyzPredicate ==
    ReadyzServed =>
        /\ (http.out.resp.body.text = "ready") <=> (http.authenticated /\ http.syncing)
        /\ (http.out.resp.code = 200) <=> (http.authenticated /\ http.syncing)
        /\ ~(http.authenticated /\ http.syncing) =>
              /\ http.out.resp.body.text = "not_ready"
              /\ http.out.resp.code = 503
        /\ ~http.authenticated => http.out.resp.error = "not authenticated"
        /\ (http.authenticated /\ ~http.syncing) => http.out.resp.error = "not syncing"

\* the handler loaded authenticated = false and then syncing = true
C1_Witness ==
    /\ ReadyzServed
    /\ ~http.authenticated
    /\ http.syncing
    /\ http.out.resp.error = "not authenticated"

\* C2: the sync goroutine neither stores true into syncRunning or syncing nor
\* calls Sync before its poll has loaded authenticated = true: while it polls
\* nothing is started, it leaves the poll only on a load of true, and as long
\* as authenticated has stayed false, syncRunning and syncing are false and
\* Sync has not been called.
C2_WaitsForAuth ==
    /\ [](syncPc \in {"init", "check", "select"} => SyncNotStarted)
    /\ []((~authenticated /\ NoDirect("SetAuthenticated(false)")) => SyncNotStarted)
    /\ [][(syncPc = "check" /\ syncPc' = "starting") => authenticated]_vars

\* the goroutine has polled, found authenticated false and is waiting
C2_Witness ==
    /\ syncPc = "select"
    /\ ~authenticated
    /\ NoDirect("SetAuthenticated(false)")
    /\ ~ctxDone
    /\ SyncNotStarted

\* C3: once cancellation has fired while the loop was polling and
\* authenticated was still false, Sync is never invoked and syncRunning and
\* syncing are never set, even if authenticated becomes true afterwards.
C3_CancelledBeforeAuthNeverSyncs ==
    (cancelledBeforeAuth /\ NoDirect("SetAuthenticated(false)")) => SyncNotStarted

\* C4: after Sync has returned the goroutine stores false into syncRunning,
\* then into syncing, and ends; when it has ended both flags are false,
\* syncing as long as SetSyncing is not called by anyone else.
C4_FlagsClearedOnExit ==
    /\ syncPc = "deferSyncing" => ~syncRunning
    /\ syncPc = "done" => ~syncRunning
    /\ (syncPc = "done" /\ NoDirect("SetSyncing")) => ~syncing

\* Sync ran and returned, and the goroutine has ended
C4_Witness ==
    /\ syncPc = "done"
    /\ syncCalls = 1
    /\ NoDirect("SetSyncing")
    /\ ~syncRunning
    /\ ~syncing

SyncReturned == syncCalls >= 1 /\ syncPc \in {"deferRunning", "deferSyncing", "done"}

\* C5: Sync is invoked at most once, and after that call has returned no step
\* invokes Sync again or sets syncRunning, and no step of the goroutine sets
\* syncing, from false to true.
C5_NoRetry ==
    [][ /\ syncCalls' <= 1
        /\ SyncReturned =>
              /\ syncCalls' = syncCalls
              /\ (syncRunning' => syncRunning)
              /\ (syncPc' # syncPc) => (syncing' => syncing) ]_vars

\* the single Sync call has returned and the goroutine has ended
C5_Witness ==
    /\ syncPc = "done"
    /\ syncCalls = 1
    /\ authenticated

\* C6: when authenticated is true, the loop is polling and cancellation has
\* not fired, then - unless cancellation fires first or authenticated is set
\* back to false - the goroutine eventually has syncRunning set and is inside
\* Sync, and readiness holds then unless SetSyncing was called directly.
C6_EventuallySyncing ==
    (authenticated /\ ~ctxDone /\ syncPc \in {"check", "select"})
        ~> \/ /\ syncPc = "inSync"
              /\ syncCalls = 1
              /\ syncRunning
              /\ NoDirect("SetSyncing") =>
                    ReadyzResponse(authenticated, syncing).status = "ready"
           \/ ctxDone
           \/ ~NoDirect("SetAuthenticated(false)")

\* the goroutine is inside Sync, not cancelled, and the service is ready
C6_Witness ==
    /\ syncPc = "inSync"
    /\ ~ctxDone
    /\ directWrites = {}
    /\ syncRunning
    /\ syncing
    /\ authenticated

\* C7: once cancellation has fired, a started sync goroutine eventually ends,
\* and from then on syncRunning is false for good.
C7_TerminatesAfterCancel ==
    (ctxDone /\ syncPc # "init") ~> [](syncPc = "done" /\ ~syncRunning)

\* the goroutine ended after a cancellation that found it inside Sync
C7_Witness ==
    /\ ctxDone
    /\ syncPc = "done"
    /\ syncCalls = 1
    /\ ~syncRunning

\* C8: messagesSynced starts at 0 and equals the number of callback
\* invocations; every callback adds exactly 1, no other step changes it (it
\* never decreases and is not reset when sync stops); /sync/status reports
\* the loaded syncRunning together with the value messagesSynced has when it
\* is loaded.
C8_MonotonicCounter ==
    /\ [](messagesSynced = cbCalls)
    /\ [][ /\ messagesSynced' >= messagesSynced
           /\ (cbCalls' = cbCalls + 1) => (messagesSynced' = messagesSynced + 1)
           /\ (cbCalls' = cbCalls) => (messagesSynced' = messagesSynced)
           /\ ( /\ http.pc # "loaded"
                /\ http'.pc = "loaded"
                /\ http'.handler = "handleSyncStatus" ) =>
                 http'.running = syncRunning
           /\ ( /\ http.pc = "loaded"
                /\ http.handler = "handleSyncStatus"
                /\ http'.pc = "served" ) =>
                 /\ http'.messages_synced = messagesSynced
                 /\ http'.running = http.running
                 /\ http'.out.resp.body = [running |-> http.running,
                                           messages_synced |-> messagesSynced] ]_vars

\* sync has stopped, the counter still holds every callback, and a status
\* request made afterwards reports it with running = false
C8_Witness ==
    /\ syncPc = "done"
    /\ cbCalls = MaxCallbacks
    /\ messagesSynced = MaxCallbacks
    /\ StatusServed
    /\ http.out.resp.body.messages_synced = MaxCallbacks
    /\ ~http.out.resp.body.running

\* C11: when Sync has returned a failure and the sync goroutine has ended, the
\* goroutine has reported the failure: it has written a line other than its
\* start-up line to os.Stderr (and it has not restarted Sync).
C11_SyncFailureReported ==
    (syncPc = "done" /\ syncResult = "failure") =>
        /\ syncCalls = 1
        /\ \E i \in 1..Len(syncLog) : syncLog[i] # StartingLine

\* C9: once the success callback of QR authentication has returned,
\* authenticated is true and GetCurrentQR returns "", whatever codes were
\* stored before (and as long as nobody else stores a code or sets
\* authenticated back to false).
C9_SuccessClearsQR ==
    ( /\ qrPc = "done"
      /\ NoDirect("SetAuthenticated(false)")
      /\ NoDirect("SetCurrentQR") ) =>
        authenticated /\ GetCurrentQR(currentQR) = ""

\* codes were surfaced and the success callback has then completed
C9_Witness ==
    /\ qrPc = "done"
    /\ qrCalls = MaxQRCalls
    /\ NoDirect("SetAuthenticated(false)")
    /\ NoDirect("SetCurrentQR")
    /\ authenticated
    /\ currentQR = <<"">>

\* C10: GetCurrentQR returns "" before any SetCurrentQR call and otherwise
\* the argument of the most recent SetCurrentQR call, whoever made it.
C10_LastWriteWins ==
    /\ GetCurrentQR(currentQR) = lastQRArg
    /\ (qrCalls = 0 /\ qrPc \in {"init", "auth"} /\ NoDirect("SetCurrentQR")) =>
          GetCurrentQR(currentQR) = ""

\* a code was stored by the callback, replaced by a direct call, and the
\* direct call's argument is what GetCurrentQR returns
C10_Witness ==
    /\ qrCalls = MaxQRCalls
    /\ qrPc = "auth"
    /\ ~NoDirect("SetCurrentQR")
    /\ GetCurrentQR(currentQR) = "test-qr-code-data"

(* ---------------------------------------------------------------------- *)
(* Properties of the filter and of the HTTP handlers                       *)
(* ---------------------------------------------------------------------- *)

Served == http.pc = "served"

\* the application calls of the served request that invoke fn
CallsOf(fn) == { i \in 1..Len(http.out.calls) : http.out.calls[i].fn = fn }

\* the address the send handler submits to the filter for a 'to' value
CheckedRecipient(to) == IF Contains(to, "@") THEN to ELSE to \o "@s.whatsapp.net"

IsGroupJID(jid) == HasSuffix(jid, "@g.us")

\* C12: SendMessage is called only for a request whose 'to' and 'message' are
\* non-empty and whose recipient (with "@s.whatsapp.net" appended when 'to'
\* has no '@') passes IsAllowed, and then with the original 'to' and message;
\* a recipient the filter rejects gets 403 "recipient not allowed" and no send.
C12_SendOnlyIfAllowed ==
    Served =>
        /\ CallsOf("SendMessage") # {} =>
              /\ http.req.to # ""
              /\ http.req.message # ""
              /\ http.req.bodyValid
              /\ IsAllowed(PhoneFilterOf(cfg), CheckedRecipient(http.req.to))
              /\ http.out.calls = <<[fn |-> "SendMessage",
                                     recipient |-> http.req.to,
                                     message |-> http.req.message]>>
        /\ ( /\ http.out.handler = "handleSendMessage"
             /\ http.req.bodyValid
             /\ http.req.to # ""
             /\ http.req.message # ""
             /\ ~IsAllowed(PhoneFilterOf(cfg), CheckedRecipient(http.req.to)) ) =>
              /\ http.out.resp.code = 403
              /\ http.out.resp.error = "recipient not allowed"
              /\ http.out.calls = <<>>

\* a 'to' without '@' was checked with the domain appended and rejected
C12_Witness ==
    /\ Served
    /\ http.req.to = "654321"
    /\ http.req.message = "hi"
    /\ http.out.resp.code = 403
    /\ http.out.calls = <<>>

\* C13: IsAllowed is true for every address ending in "@g.us", whatever the
\* allow-list and the deny-list hold.
C13_GroupsAlwaysAllowed ==
    (probe.fn = "IsAllowed" /\ IsGroupJID(probe.jid)) => probe.result

\* a group address under an allow-list that does not match it and a deny-list
\* entry with the same suffix
C13_Witness ==
    /\ probe.fn = "IsAllowed"
    /\ probe.jid = "12345@g.us"
    /\ cfg.PhoneWhitelist = Slice(<<"7123456">>)
    /\ cfg.PhoneBlacklist = Slice(<<"12345">>)
    /\ probe.result

\* C14: for a non-group address and a non-empty allow-list, IsAllowed is true
\* exactly when suffix(address) = suffix(entry) for some allow-list entry,
\* whatever the deny-list holds.
C14_AllowListDecides ==
    ( /\ probe.fn = "IsAllowed"
      /\ ~IsGroupJID(probe.jid)
      /\ Len(cfg.PhoneWhitelist.items) > 0 ) =>
        ( probe.result <=>
            \E i \in 1..Len(cfg.PhoneWhitelist.items) :
                extractSuffix(probe.jid) = extractSuffix(cfg.PhoneWhitelist.items[i]) )

\* C15: for a non-group address and an empty or absent allow-list, IsAllowed
\* is true exactly when suffix(address) = suffix(entry) for no deny-list
\* entry; with both lists empty every address is allowed.
C15_DenyListDecides ==
    ( /\ probe.fn = "IsAllowed"
      /\ ~IsGroupJID(probe.jid)
      /\ Len(cfg.PhoneWhitelist.items) = 0 ) =>
        ( probe.result <=>
            \A i \in 1..Len(cfg.PhoneBlacklist.items) :
                extractSuffix(probe.jid) # extractSuffix(cfg.PhoneBlacklist.items[i]) )

\* C16: entries and addresses are reduced by the same suffix function, so the
\* list that decides a non-group address matches it exactly when some entry
\* has the address's suffix, whatever prefix or domain part either carries.
C16_SameSuffixForEntries ==
    (probe.fn = "IsAllowed" /\ ~IsGroupJID(probe.jid)) =>
        probe.result =
            ( IF Len(cfg.PhoneWhitelist.items) > 0
              THEN \E i \in 1..Len(cfg.PhoneWhitelist.items) :
                      extractSuffix(cfg.PhoneWhitelist.items[i]) = extractSuffix(probe.jid)
              ELSE \A i \in 1..Len(cfg.PhoneBlacklist.items) :
                      extractSuffix(cfg.PhoneBlacklist.items[i]) # extractSuffix(probe.jid) )

\* C17: JIDSuffixes returns, in list order, suffix(entry) + "@" per allow-list
\* entry and per deny-list entry, a nil set for an empty or absent list, and
\* the list and search handlers pass exactly these sets to the application.
C17_PatternsPerEntry ==
    LET Patterns(entries) ==
            IF Len(entries.items) = 0
            THEN NilSlice
            ELSE Slice([i \in 1..Len(entries.items) |->
                          extractSuffix(entries.items[i]) \o "@"])
    IN  /\ probe.fn = "JIDSuffixes" =>
              /\ probe.result.includeJIDs = Patterns(cfg.PhoneWhitelist)
              /\ probe.result.excludeJIDs = Patterns(cfg.PhoneBlacklist)
        /\ Served =>
              \A i \in 1..Len(http.out.calls) :
                  http.out.calls[i].fn \in {"ListMessages", "ListChats", "SearchContacts"} =>
                      /\ http.out.calls[i].includeJIDs = Patterns(cfg.PhoneWhitelist)
                      /\ http.out.calls[i].excludeJIDs = Patterns(cfg.PhoneBlacklist)

\* the key a request presents
ClaimedKey(r) ==
    IF r.xApiKey # "" THEN r.xApiKey
    ELSE IF Len(r.authorization) >= 7 /\ SubSeq(r.authorization, 1, 7) = "Bearer "
         THEN SubSeq(r.authorization, 8, Len(r.authorization))
         ELSE ""

KeyValid(r) == ClaimedKey(r) # "" /\ ClaimedKey(r) = cfg.APIKey

\* what C18 says of GET /healthz and GET /readyz: served whatever the key
ProbesOpen ==
    Served =>
        /\ (http.req.method = "GET" /\ http.req.path = "/healthz") =>
              http.out.handler = "handleHealthz" /\ http.out.resp.code = 200
        /\ (http.req.method = "GET" /\ http.req.path = "/readyz") =>
              http.out.handler = "handleReadyz" /\ http.out.resp.code \in {200, 503}

\* a request for a path under /api/v1/ has reached handleSyncStatus, or has
\* been answered by a handler
ReachedHandler ==
    \/ http.pc = "loaded"
    \/ Served /\ http.out.handler # "none"

\* C18 as stated: every request under /api/v1/ reaches a handler only with a
\* valid key and is answered 401 "unauthorized", without any application
\* call, when its key is not valid; /healthz and /readyz are served whatever
\* the key.
C18_AuthGateEveryPath ==
    /\ (http.pc # "idle" /\ HasPrefix(http.req.path, "/api/v1/")) =>
          /\ ReachedHandler => KeyValid(http.req)
          /\ (Served /\ ~KeyValid(http.req)) =>
                /\ http.out.resp.code = 401
                /\ http.out.resp.error = "unauthorized"
                /\ http.out.calls = <<>>
          /\ (Served /\ KeyValid(http.req)) => http.out.resp.code # 401
    /\ ProbesOpen

\* C18, amended: a request under /api/v1/ reaches a handler, and the
\* application, only with a valid key. The router hands the request to the
\* middleware when its method is CONNECT or its path is in canonical form;
\* such a request gets past the middleware exactly when the presented key is
\* non-empty and equal to the configured key, and is answered 401
\* "unauthorized" otherwise. Any other request the router answers itself,
\* whatever the key, with 301 and the canonical path, a slash appended when
\* the canonical path is /api/v1. /healthz and /readyz are served whatever
\* the key.
C18_AuthGate ==
    /\ (http.pc # "idle" /\ HasPrefix(http.req.path, "/api/v1/")) =>
          LET r        == http.req
              cleaned  == cleanPath(r.path)
              handed   == r.method = "CONNECT" \/ cleaned = r.path
              location == IF cleaned = "/api/v1" THEN "/api/v1/" ELSE cleaned
              routed   == /\ cleaned = r.path
                          /\ \E rt \in ApiRoutes :
                                /\ rt.path = SubSeq(r.path, 8, Len(r.path))
                                /\ rt.method = r.method \/ (rt.method = "GET" /\ r.method = "HEAD")
          IN  /\ ReachedHandler => (KeyValid(r) /\ handed /\ routed)
              /\ (Served /\ ~KeyValid(r)) => http.out.calls = <<>>
              /\ (Served /\ handed /\ ~KeyValid(r)) =>
                    /\ http.out.resp.code = 401
                    /\ http.out.resp.error = "unauthorized"
              /\ (Served /\ handed /\ KeyValid(r)) =>
                    /\ http.out.resp.code \notin {401, 301}
                    /\ routed <=> http.out.handler # "none"
              /\ (Served /\ ~handed) =>
                    /\ http.out.resp.code = 301
                    /\ http.out.resp.body = [text |-> location]
                    /\ http.out.calls = <<>>
    /\ ProbesOpen

\* a request carrying only a Bearer token reached its handler and the application
C18_Witness ==
    /\ Served
    /\ http.req.xApiKey = ""
    /\ http.req.authorization = "Bearer k1"
    /\ http.out.handler = "handleListMessages"
    /\ CallsOf("ListMessages") # {}

Min(a, b) == IF a < b THEN a ELSE b

\* the value of a query parameter: the number it spells when it is a
\* non-negative integer, else the default
RequestedOr(v, defaultVal) ==
    IF v # "" /\ ~Atoi(v).err /\ Atoi(v).n >= 0 THEN Atoi(v).n ELSE defaultVal

\* C19: list-messages, search-messages and list-chats pass to the application
\* limit = min(L, MaxMessages), L being the requested limit or the default 20,
\* and page = the requested page or 0; the limit never exceeds MaxMessages.
C19_LimitCapped ==
    Served =>
        \A i \in 1..Len(http.out.calls) :
            http.out.calls[i].fn \in {"ListMessages", "ListChats"} =>
                /\ http.out.calls[i].limit =
                      Min(RequestedOr(http.req.limit, 20), cfg.MaxMessages)
                /\ http.out.calls[i].page = RequestedOr(http.req.page, 0)
                /\ http.out.calls[i].limit <= cfg.MaxMessages

\* a requested limit above MaxMessages was cut down to it
C19_Witness ==
    /\ Served
    /\ http.req.limit = "500"
    /\ http.req.page = "3"
    /\ cfg.MaxMessages = 100
    /\ CallsOf("ListMessages") # {}
    /\ http.out.calls[1].limit = 100
    /\ http.out.calls[1].page = 3

(* ---------------------------------------------------------------------- *)
(* Store: the chats table (store package; its contract is spec.md 3, 4.2)  *)
(* ---------------------------------------------------------------------- *)

\* largest activity time offered to StoreChat
MaxTime == 2

ChatJIDs == {"1234@s.whatsapp.net", "5678@g.us"}

FriendlyNames == {"John Doe", "Jane Smith"}

Times == 0..MaxTime

\* a name is a placeholder when it is textually the chat's own address
IsPlaceholder(address, name) == name = address

\* the rows of the chats table stored under an address (at most one)
ChatRows(table, address) == { row \in table : row.jid = address }

StoredNameAlwaysNew(existing, address, name, overwrite) == name

\* the name an existing chat holds after StoreChat(address, name, _): a
\* placeholder keeps the stored name, a real name replaces a placeholder, and
\* a real name offered over another real name is left open by the contract
\* (overwrite chooses)
StoredName(existing, address, name, overwrite) ==
    IF IsPlaceholder(address, name) THEN existing
    ELSE IF IsPlaceholder(address, existing) THEN name
    ELSE IF overwrite THEN name ELSE existing

StoreChatKeepsTime(table, address, name, activityTime, overwrite) ==
    IF ChatRows(table, address) = {}
    THEN table \cup {[jid |-> address, name |-> name, ts |-> activityTime]}
    ELSE { IF row.jid = address
           THEN [jid |-> address,
                 name |-> StoredName(row.name, address, name, overwrite),
                 ts |-> row.ts]
           ELSE row : row \in table }

\* StoreChat(address, name, activityTime): upsert keyed by the address; the
\* last-activity timestamp is always replaced
StoreChat(table, address, name, activityTime, overwrite) ==
    IF ChatRows(table, address) = {}
    THEN table \cup {[jid |-> address, name |-> name, ts |-> activityTime]}
    ELSE { IF row.jid = address
           THEN [jid |-> address,
                 name |-> StoredName(row.name, address, name, overwrite),
                 ts |-> activityTime]
           ELSE row : row \in table }

\* store.StoreChat(jid, name, lastMessageTime)
CallStoreChat ==
    /\ \E address \in ChatJIDs, t \in Times, overwrite \in BOOLEAN :
         \E name \in FriendlyNames \cup {address} :
            /\ chats' = StoreChat(chats, address, name, t, overwrite)
            /\ storeCall' = [op |-> "StoreChat", address |-> address,
                             name |-> name, ts |-> t,
                             before |-> ChatRows(chats, address)]
    /\ UNCHANGED <<coordVars, apiVars, http, messages, tieOrder>>

StoreNext == CallStoreChat

StoreSpec == Init /\ [][StoreNext]_vars

(* ---------------------------------------------------------------------- *)
(* Store: the messages table and its download state                        *)
(* ---------------------------------------------------------------------- *)

MessageIDs == {"msg1", "msg2"}

\* media descriptors given to StoreMessage
NoMedia == [kind |-> "", filename |-> "", mimeType |-> ""]

Photo == [kind |-> "image", filename |-> "photo.jpg", mimeType |-> "image/jpeg"]

\* content and media descriptor a message id arrives with
MessageBodies ==
    { [id |-> "msg1", content |-> "Sample caption", media |-> Photo],
      [id |-> "msg2", content |-> "Hello", media |-> NoMedia],
      [id |-> "msg2", content |-> "World", media |-> NoMedia] }

\* timestamps messages arrive with: the earliest and the latest time
MessageTimes == {0, MaxTime}

LocalPaths == {"/tmp/photo.jpg"}

\* times given to MarkMediaDownloaded
DownloadTimes == {10, 11}

\* download state: absent, or the local path and the time of the download
NoDownload == <<>>

Downloaded(path, at) == <<[path |-> path, at |-> at]>>

\* the rows of the messages table stored under (id, chat) (at most one)
MessageRows(table, id, chat) == { row \in table : row.id = id /\ row.chat = chat }

StoreMessageAppends(table, id, chat, content, ts, media) ==
    table \cup {[id |-> id, chat |-> chat, content |-> content, ts |-> ts,
                 media |-> media, download |-> NoDownload]}

\* StoreMessage(id, chatAddress, ..., content, timestamp, ..., media fields):
\* upsert keyed by (id, chat); a new row has no download state, a row stored
\* again takes the new attributes and keeps its download state; the chat need
\* not exist
StoreMessage(table, id, chat, content, ts, media) ==
    IF MessageRows(table, id, chat) = {}
    THEN table \cup {[id |-> id, chat |-> chat, content |-> content, ts |-> ts,
                      media |-> media, download |-> NoDownload]}
    ELSE { IF row.id = id /\ row.chat = chat
           THEN [id |-> id, chat |-> chat, content |-> content, ts |-> ts,
                 media |-> media, download |-> row.download]
           ELSE row : row \in table }

MarkMediaDownloadedUpserts(table, id, chat, path, at) ==
    [err |-> "",
     table |-> { row \in table : ~(row.id = id /\ row.chat = chat) } \cup
               {[id |-> id, chat |-> chat, content |-> "", ts |-> at,
                 media |-> NoMedia, download |-> Downloaded(path, at)]}]

\* MarkMediaDownloaded(id, chatAddress, localPath, downloadedAt): sets the
\* download state of the matching row; NotFound when there is none
MarkMediaDownloaded(table, id, chat, path, at) ==
    IF MessageRows(table, id, chat) = {}
    THEN [err |-> "NotFound", table |-> table]
    ELSE [err |-> "",
          table |-> { IF row.id = id /\ row.chat = chat
                      THEN [row EXCEPT !.download = Downloaded(path, at)]
                      ELSE row : row \in table }]

\* the MediaDownloadInfo of a row
DownloadInfo(row) ==
    [id |-> row.id, chat |-> row.chat, media |-> row.media, download |-> row.download]

\* GetMessageForDownload(id, chatAddress?): the media descriptor and download
\* state of one message; by id alone when the chat is omitted, which fails
\* when several chats hold the id
GetMessageForDownload(table, id, chat) ==
    LET rows == IF chat = NilString
                THEN { row \in table : row.id = id }
                ELSE MessageRows(table, id, chat[1])
    IN  IF rows = {} THEN [err |-> "NotFound"]
        ELSE IF Cardinality(rows) > 1 THEN [err |-> "Ambiguous"]
        ELSE [err |-> "", info |-> DownloadInfo(CHOOSE row \in rows : TRUE)]

\* chats present when the message operations start: none, or the chat the
\* messages go to
MessageInit ==
    /\ CoordInit
    /\ cfg = [APIKey |-> "k1", MaxMessages |-> 100, MaxHours |-> 48,
              PhoneWhitelist |-> NilSlice, PhoneBlacklist |-> NilSlice, app |-> "app"]
    /\ http = [pc |-> "idle"]
    /\ probe = [fn |-> "none"]
    /\ chats \in { {}, {[jid |-> "1234@s.whatsapp.net", name |-> "John Doe", ts |-> 0]} }
    /\ messages = {}
    /\ storeCall = [op |-> "none"]
    /\ tieOrder = <<>>

\* store.StoreMessage(id, chatJID, sender, content, timestamp, ...)
CallStoreMessage ==
    /\ \E body \in MessageBodies, chat \in ChatJIDs, t \in MessageTimes :
          /\ messages' = StoreMessage(messages, body.id, chat, body.content, t, body.media)
          /\ storeCall' = [op |-> "StoreMessage", id |-> body.id, chat |-> chat,
                           content |-> body.content, ts |-> t, media |-> body.media,
                           err |-> "",
                           existed |-> MessageRows(messages, body.id, chat) # {}]
    /\ UNCHANGED <<coordVars, apiVars, http, chats, tieOrder>>

\* store.MarkMediaDownloaded(id, chatJID, localPath, downloadedAt)
CallMarkMediaDownloaded ==
    /\ \E id \in MessageIDs, chat \in ChatJIDs, path \in LocalPaths, at \in DownloadTimes :
          LET res == MarkMediaDownloaded(messages, id, chat, path, at)
          IN  /\ messages' = res.table
              /\ storeCall' = [op |-> "MarkMediaDownloaded", id |-> id, chat |-> chat,
                               path |-> path, at |-> at, err |-> res.err]
    /\ UNCHANGED <<coordVars, apiVars, http, chats, tieOrder>>

\* store.GetMessageForDownload(id, chatJID)
CallGetMessageForDownload ==
    /\ \E id \in MessageIDs, chat \in {NilString} \cup { PtrString(c) : c \in ChatJIDs } :
          storeCall' = [op |-> "GetMessageForDownload", id |-> id, chat |-> chat,
                        result |-> GetMessageForDownload(messages, id, chat)]
    /\ UNCHANGED <<coordVars, apiVars, http, chats, messages, tieOrder>>

MessageNext ==
    \/ CallStoreMessage
    \/ CallMarkMediaDownloaded
    \/ CallGetMessageForDownload

MessageSpec == MessageInit /\ [][MessageNext]_vars

(* ---------------------------------------------------------------------- *)
(* Store: list and search operations                                       *)
(* ---------------------------------------------------------------------- *)

Alice == "11111234@s.whatsapp.net"

Bob == "22225678@s.whatsapp.net"

GroupChat == "99999999@g.us"

\* the place of a row in the store's order of ties. The order is the
\* implementer's choice (insertion order, id, ...); it is fixed while the
\* store is unchanged
RowRank(row) == CHOOSE i \in 1..Len(tieOrder) : tieOrder[i] = row

ChatBeforeOldestFirst(a, b) ==
    \/ a.ts < b.ts
    \/ a.ts = b.ts /\ RowRank(a) < RowRank(b)

\* chat a is listed before chat b: later activity first, then the order of ties
ChatBefore(a, b) ==
    \/ a.ts > b.ts
    \/ a.ts = b.ts /\ RowRank(a) < RowRank(b)

\* message a is listed before message b: later timestamp first, then the
\* order of ties
MessageBefore(a, b) ==
    \/ a.ts > b.ts
    \/ a.ts = b.ts /\ RowRank(a) < RowRank(b)

RECURSIVE SortChats(_)
SortChats(rows) ==
    IF rows = {} THEN <<>>
    ELSE LET first == CHOOSE r \in rows : \A o \in rows \ {r} : ChatBefore(r, o)
         IN  <<first>> \o SortChats(rows \ {first})

RECURSIVE SortMessages(_)
SortMessages(rows) ==
    IF rows = {} THEN <<>>
    ELSE LET first == CHOOSE r \in rows : \A o \in rows \ {r} : MessageBefore(r, o)
         IN  <<first>> \o SortMessages(rows \ {first})

RECURSIVE SortContacts(_)
SortContacts(rows) ==
    IF rows = {} THEN <<>>
    ELSE LET first == CHOOSE r \in rows :
                         \A o \in rows \ {r} : RowRank(r) < RowRank(o)
         IN  <<first>> \o SortContacts(rows \ {first})

\* LIMIT limit OFFSET page * limit
PageOf(rows, limit, page) ==
    LET from == page * limit + 1
        to   == IF page * limit + limit < Len(rows) THEN page * limit + limit ELSE Len(rows)
    IN  IF from > to THEN <<>> ELSE SubSeq(rows, from, to)

\* the pattern matching rule of the list operations: the address contains
\* some entry of the set as a literal substring
MatchesAnyPattern(address, patterns) ==
    \E i \in 1..Len(patterns.items) : Contains(address, patterns.items[i])

PassesPatternsEmptyMatchesNone(address, include, exclude) ==
    /\ include.isNil \/ MatchesAnyPattern(address, include)
    /\ exclude.isNil \/ ~MatchesAnyPattern(address, exclude)

\* an absent or empty include set admits every address, an absent or empty
\* exclude set removes none
PassesPatterns(address, include, exclude) ==
    /\ Len(include.items) = 0 \/ MatchesAnyPattern(address, include)
    /\ Len(exclude.items) = 0 \/ ~MatchesAnyPattern(address, exclude)

\* ListChats(query?, limit, pageOffset, includePatterns?, excludePatterns?)
ListChats(table, query, limit, page, include, exclude) ==
    PageOf(SortChats({ row \in table :
                          /\ query = NilString \/ Contains(row.name, query[1])
                          /\ PassesPatterns(row.jid, include, exclude) }),
           limit, page)

\* ListMessages(chatAddress?, query?, limit, pageOffset, includePatterns?,
\* excludePatterns?, after?): the patterns apply to the chat address of a message
ListMessages(table, chat, query, limit, page, include, exclude, after) ==
    PageOf(SortMessages({ row \in table :
                             /\ chat = NilString \/ row.chat = chat[1]
                             /\ query = NilString \/ Contains(row.content, query[1])
                             /\ after = <<>> \/ row.ts > after[1]
                             /\ PassesPatterns(row.chat, include, exclude) }),
           limit, page)

SearchContactsWithGroups(table, query, include, exclude) ==
    SortContacts({ row \in table :
                      /\ Contains(row.name, query)
                      /\ PassesPatterns(row.jid, include, exclude) })

\* SearchContacts(query, includePatterns?, excludePatterns?): direct addresses only
SearchContacts(table, query, include, exclude) ==
    SortContacts({ row \in table :
                      /\ ~HasSuffix(row.jid, "@g.us")
                      /\ Contains(row.name, query)
                      /\ PassesPatterns(row.jid, include, exclude) })

\* chats tables the list operations run on: each chat absent or stored at some time
ChatTables ==
    { { [jid |-> a,
         name |-> IF a = Alice THEN "Alice" ELSE IF a = Bob THEN "Bob" ELSE "Group Chat",
         ts |-> f[a]] : a \in { x \in DOMAIN f : f[x] >= 0 } } :
        f \in [{Alice, Bob, GroupChat} -> {-1} \cup Times] }

\* (id, chat) pairs of the listed messages
ListedKeys == { <<"msg1", Alice>>, <<"msg2", Alice>>, <<"msg1", GroupChat>> }

\* messages tables the list operations run on: each message absent or stored at some time
MessageTables ==
    { { [id |-> k[1], chat |-> k[2],
         content |-> IF k[1] = "msg1" THEN "Hello" ELSE "World",
         ts |-> f[k], media |-> NoMedia, download |-> NoDownload] :
           k \in { x \in DOMAIN f : f[x] >= 0 } } :
        f \in [ListedKeys -> {-1} \cup Times] }

\* include and exclude pattern sets given to the list operations
PatternSets ==
    { NilSlice, Slice(<<>>), Slice(<<"111234@">>), Slice(<<"111234@", "999999@">>) }

\* most calls a caller makes while it pages through one listing
MaxListCalls == 4

\* limits, pages and pattern sets of the calls whose selection of rows is
\* examined: one call on each store
QueryInputs ==
    [limits |-> {1, 2, 10}, pages |-> {0, 1},
     include |-> PatternSets, exclude |-> PatternSets, calls |-> 1]

\* limits, first pages and pattern sets of the listings a caller pages through
PagingInputs ==
    [limits |-> {1, 2}, pages |-> {0, 1},
     include |-> {NilSlice}, exclude |-> {NilSlice, Slice(<<"111234@">>)},
     calls |-> MaxListCalls]

\* a store holding some chats or some messages, whose rows of equal
\* timestamp are listed in some fixed order
QueryInit ==
    /\ CoordInit
    /\ cfg = [APIKey |-> "k1", MaxMessages |-> 100, MaxHours |-> 48,
              PhoneWhitelist |-> NilSlice, PhoneBlacklist |-> NilSlice, app |-> "app"]
    /\ http = [pc |-> "idle"]
    /\ probe = [fn |-> "none"]
    /\ chats \in ChatTables
    /\ messages \in MessageTables
    /\ chats = {} \/ messages = {}
    /\ storeCall = [op |-> "none"]
    /\ LET rows == chats \cup messages
       IN  tieOrder \in { order \in [1..Cardinality(rows) -> rows] :
                             \A i, j \in DOMAIN order : order[i] = order[j] => i = j }

\* store.ListChats(ListChatsParams{...}): the first call of a listing takes
\* any parameters, a call after it repeats them for the same page or the next
CallListChats(in) ==
    /\ storeCall.op \in {"none", "ListChats"}
    /\ LET first   == storeCall.op = "none"
           earlier == IF first THEN <<>>
                      ELSE Append(storeCall.earlier,
                                  [page |-> storeCall.page, result |-> storeCall.result])
       IN  /\ Len(earlier) < in.calls
           /\ \E query   \in IF first THEN {NilString, PtrString("Ali")} ELSE {storeCall.query},
                 limit   \in IF first THEN in.limits ELSE {storeCall.limit},
                 page    \in IF first THEN in.pages ELSE {storeCall.page, storeCall.page + 1},
                 include \in IF first THEN in.include ELSE {storeCall.include},
                 exclude \in IF first THEN in.exclude ELSE {storeCall.exclude} :
                 storeCall' = [op |-> "ListChats", query |-> query, limit |-> limit,
                               page |-> page, include |-> include, exclude |-> exclude,
                               result |-> ListChats(chats, query, limit, page, include, exclude),
                               earlier |-> earlier]
    /\ UNCHANGED <<coordVars, apiVars, http, chats, messages, tieOrder>>

\* store.ListMessages(ListMessagesParams{...}): the first call of a listing
\* takes any parameters, a call after it repeats them for the same page or
\* the next
CallListMessages(in) ==
    /\ storeCall.op \in {"none", "ListMessages"}
    /\ LET first   == storeCall.op = "none"
           earlier == IF first THEN <<>>
                      ELSE Append(storeCall.earlier,
                                  [page |-> storeCall.page, result |-> storeCall.result])
       IN  /\ Len(earlier) < in.calls
           /\ \E chat    \in IF first THEN {NilString, PtrString(Alice)} ELSE {storeCall.chat},
                 query   \in IF first THEN {NilString, PtrString("Hello")} ELSE {storeCall.query},
                 limit   \in IF first THEN in.limits ELSE {storeCall.limit},
                 page    \in IF first THEN in.pages ELSE {storeCall.page, storeCall.page + 1},
                 include \in IF first THEN in.include ELSE {storeCall.include},
                 exclude \in IF first THEN in.exclude ELSE {storeCall.exclude},
                 after   \in IF first THEN {<<>>, <<0>>} ELSE {storeCall.after} :
                 storeCall' = [op |-> "ListMessages", chat |-> chat, query |-> query,
                               limit |-> limit, page |-> page,
                               include |-> include, exclude |-> exclude, after |-> after,
                               result |-> ListMessages(messages, chat, query, limit, page,
                                                       include, exclude, after),
                               earlier |-> earlier]
    /\ UNCHANGED <<coordVars, apiVars, http, chats, messages, tieOrder>>

\* store.SearchContacts(SearchContactsParams{...})
CallSearchContacts(in) ==
    /\ storeCall.op = "none"
    /\ \E query \in {"", "Ali"}, include \in in.include, exclude \in in.exclude :
          storeCall' = [op |-> "SearchContacts", query |-> query,
                        include |-> include, exclude |-> exclude,
                        result |-> SearchContacts(chats, query, include, exclude)]
    /\ UNCHANGED <<coordVars, apiVars, http, chats, messages, tieOrder>>

QueryNext ==
    \/ CallListChats(QueryInputs)
    \/ CallListMessages(QueryInputs)
    \/ CallSearchContacts(QueryInputs)

QuerySpec == QueryInit /\ [][QueryNext]_vars

PagingNext ==
    \/ CallListChats(PagingInputs)
    \/ CallListMessages(PagingInputs)

PagingSpec == QueryInit /\ [][PagingNext]_vars

\* C20: a StoreChat call with a placeholder name (name equal to the address)
\* never changes the stored name of a chat that holds a non-placeholder name.
C20_PlaceholderNeverOverwrites ==
    [][ ( /\ storeCall'.op = "StoreChat"
          /\ IsPlaceholder(storeCall'.address, storeCall'.name) ) =>
            \A row \in ChatRows(chats, storeCall'.address) :
                ~IsPlaceholder(row.jid, row.name) =>
                    \A after \in ChatRows(chats', row.jid) : after.name = row.name
      ]_vars

\* a placeholder call arrived at a chat named "John Doe": the name stayed and
\* the activity time moved
C20_Witness ==
    /\ storeCall.op = "StoreChat"
    /\ storeCall.address = "1234@s.whatsapp.net"
    /\ storeCall.name = storeCall.address
    /\ storeCall.before = {[jid |-> "1234@s.whatsapp.net", name |-> "John Doe", ts |-> 0]}
    /\ chats = {[jid |-> "1234@s.whatsapp.net", name |-> "John Doe", ts |-> 1]}

\* C21: a StoreChat call with a non-placeholder name leaves that name stored
\* when the chat was absent or held a placeholder, and every StoreChat call
\* leaves the chat stored with the activity time it was given, whether or not
\* the name changed.
C21_NameUpgradedTimeOverwritten ==
    [][ storeCall'.op = "StoreChat" =>
          /\ ChatRows(chats', storeCall'.address) # {}
          /\ \A after \in ChatRows(chats', storeCall'.address) :
                after.ts = storeCall'.ts
          /\ ( /\ ~IsPlaceholder(storeCall'.address, storeCall'.name)
               /\ \A row \in ChatRows(chats, storeCall'.address) :
                     IsPlaceholder(row.jid, row.name) ) =>
                \A after \in ChatRows(chats', storeCall'.address) :
                    after.name = storeCall'.name
      ]_vars

\* a chat stored under its own address as name was given "Jane Smith" at a
\* later time: name and time are the new ones
C21_Witness ==
    /\ storeCall.op = "StoreChat"
    /\ storeCall.name = "Jane Smith"
    /\ storeCall.before = {[jid |-> "5678@g.us", name |-> "5678@g.us", ts |-> 0]}
    /\ chats = {[jid |-> "5678@g.us", name |-> "Jane Smith", ts |-> 1]}

\* C22: the messages table holds at most one row per (id, chat) pair; a
\* StoreMessage call succeeds whether or not the chat was ever stored, leaves
\* exactly one row for its pair, and adds a row only when the pair was absent,
\* so the same id in two chats gives two rows.
C22_StoreMessageIdempotent ==
    /\ [](\A r1 \in messages, r2 \in messages :
             (r1.id = r2.id /\ r1.chat = r2.chat) => r1 = r2)
    /\ [][ storeCall'.op = "StoreMessage" =>
             /\ storeCall'.err = ""
             /\ Cardinality(MessageRows(messages', storeCall'.id, storeCall'.chat)) = 1
             /\ Cardinality(messages') =
                   Cardinality(messages) +
                   (IF MessageRows(messages, storeCall'.id, storeCall'.chat) = {}
                    THEN 1 ELSE 0)
             /\ \A row \in messages :
                   (row.id # storeCall'.id \/ row.chat # storeCall'.chat) =>
                       row \in messages'
       ]_vars

\* "msg1" is held once in each of two chats, neither chat was ever stored,
\* and the last call stored a pair again without adding a row
C22_Witness ==
    /\ storeCall.op = "StoreMessage"
    /\ storeCall.id = "msg1"
    /\ storeCall.existed
    /\ chats = {}
    /\ Cardinality(messages) = 2
    /\ \A c \in ChatJIDs : Cardinality(MessageRows(messages, "msg1", c)) = 1

\* the download state a table holds for (id, chat): absent when there is no row
DownloadOf(table, id, chat) ==
    IF MessageRows(table, id, chat) = {}
    THEN NoDownload
    ELSE (CHOOSE row \in MessageRows(table, id, chat) : TRUE).download

\* C26: a message's download state is absent when it is stored and changes
\* only in a MarkMediaDownloaded call for its (id, chat) pair; after such a
\* call GetMessageForDownload returns exactly the path and time given with
\* the media descriptor unchanged; MarkMediaDownloaded on a pair without a
\* row fails with NotFound and changes nothing.
C26_DownloadState ==
    [][ /\ \A row \in messages' :
              DownloadOf(messages', row.id, row.chat) # DownloadOf(messages, row.id, row.chat) =>
                  /\ storeCall'.op = "MarkMediaDownloaded"
                  /\ storeCall'.id = row.id
                  /\ storeCall'.chat = row.chat
        /\ (storeCall'.op = "MarkMediaDownloaded" /\
            MessageRows(messages, storeCall'.id, storeCall'.chat) # {}) =>
              /\ storeCall'.err = ""
              /\ \A before \in MessageRows(messages, storeCall'.id, storeCall'.chat) :
                    GetMessageForDownload(messages', storeCall'.id, PtrString(storeCall'.chat)) =
                        [err |-> "",
                         info |-> [id |-> before.id, chat |-> before.chat,
                                   media |-> before.media,
                                   download |-> Downloaded(storeCall'.path, storeCall'.at)]]
        /\ (storeCall'.op = "MarkMediaDownloaded" /\
            MessageRows(messages, storeCall'.id, storeCall'.chat) = {}) =>
              /\ storeCall'.err = "NotFound"
              /\ messages' = messages
        /\ (storeCall'.op = "GetMessageForDownload" /\ storeCall'.result.err = "") =>
              \E row \in messages' :
                  /\ row.id = storeCall'.id
                  /\ storeCall'.result.info = DownloadInfo(row)
      ]_vars

\* the lookup by id alone returned the photo's descriptor with the path and
\* time of the second download
C26_Witness ==
    /\ storeCall.op = "GetMessageForDownload"
    /\ storeCall.id = "msg1"
    /\ storeCall.chat = NilString
    /\ storeCall.result.err = ""
    /\ storeCall.result.info.media = Photo
    /\ storeCall.result.info.download = Downloaded("/tmp/photo.jpg", 11)

\* the rows a list or search call returned
ResultRows == { storeCall.result[i] : i \in 1..Len(storeCall.result) }

\* an address is admitted by include set P and exclude set Q: it contains
\* some entry of P (any address when P has no entries) and no entry of Q
Admits(address, P, Q) ==
    /\ Len(P.items) = 0 \/ \E i \in 1..Len(P.items) : Contains(address, P.items[i])
    /\ ~\E i \in 1..Len(Q.items) : Contains(address, Q.items[i])

\* the rows a call may return: those its other parameters select and its
\* pattern sets admit
Selected ==
    IF storeCall.op = "ListChats"
    THEN { row \in chats :
              /\ storeCall.query = NilString \/ Contains(row.name, storeCall.query[1])
              /\ Admits(row.jid, storeCall.include, storeCall.exclude) }
    ELSE IF storeCall.op = "ListMessages"
    THEN { row \in messages :
              /\ storeCall.chat = NilString \/ row.chat = storeCall.chat[1]
              /\ storeCall.query = NilString \/ Contains(row.content, storeCall.query[1])
              /\ storeCall.after = <<>> \/ row.ts > storeCall.after[1]
              /\ Admits(row.chat, storeCall.include, storeCall.exclude) }
    ELSE { row \in chats :
              /\ ~IsGroupJID(row.jid)
              /\ Contains(row.name, storeCall.query)
              /\ Admits(row.jid, storeCall.include, storeCall.exclude) }

\* C23: ListMessages, ListChats and SearchContacts return only rows whose
\* chat address contains some include pattern (any row when the include set
\* is absent or empty) and no exclude pattern, and return all of them when
\* the page holds them all.
C23_PatternsApplied ==
    storeCall.op \in {"ListChats", "ListMessages", "SearchContacts"} =>
        /\ ResultRows \subseteq Selected
        /\ storeCall.op = "SearchContacts" => ResultRows = Selected
        /\ ( /\ storeCall.op \in {"ListChats", "ListMessages"}
             /\ storeCall.page = 0
             /\ storeCall.limit >= Cardinality(chats) + Cardinality(messages) ) =>
                ResultRows = Selected

\* include admits Alice and the group, exclude removes Alice: of the three
\* chats only the group is returned
C23_Witness ==
    /\ storeCall.op = "ListChats"
    /\ storeCall.include = Slice(<<"111234@", "999999@">>)
    /\ storeCall.exclude = Slice(<<"111234@">>)
    /\ storeCall.query = NilString
    /\ storeCall.limit = 10
    /\ Cardinality(chats) = 3
    /\ Len(storeCall.result) = 1
    /\ storeCall.result[1].jid = GroupChat

\* C24: every page ListMessages and ListChats return is in non-increasing
\* timestamp order; calls repeated for a page on the unchanged store return
\* the same rows in the same order; a later page holds no row of an earlier
\* one and no row more recent than a row of an earlier one; and the pages
\* from the first up to any page called hold, each row once, as many of the
\* selected rows as fit in them, none of the rows left out being more recent
\* than a row returned: consecutive pages neither repeat nor skip a row.
C24_SortedAndPaged ==
    storeCall.op \in {"ListChats", "ListMessages"} =>
        LET calls   == Append(storeCall.earlier,
                              [page |-> storeCall.page, result |-> storeCall.result])
            Rows(c) == { calls[c].result[i] : i \in 1..Len(calls[c].result) }
            UpTo(k) == UNION { Rows(c) : c \in { d \in DOMAIN calls : calls[d].page <= k } }
        IN  /\ \A c \in DOMAIN calls :
                  /\ Len(calls[c].result) <= storeCall.limit
                  /\ Rows(c) \subseteq Selected
                  /\ \A i \in 1..Len(calls[c].result), j \in 1..Len(calls[c].result) :
                        i < j => /\ calls[c].result[i].ts >= calls[c].result[j].ts
                                 /\ calls[c].result[i] # calls[c].result[j]
            /\ \A c \in DOMAIN calls, d \in DOMAIN calls :
                  /\ calls[c].page = calls[d].page => calls[c].result = calls[d].result
                  /\ calls[c].page < calls[d].page =>
                        /\ Rows(c) \cap Rows(d) = {}
                        /\ \A a \in Rows(c), b \in Rows(d) : a.ts >= b.ts
            /\ \A k \in { calls[c].page : c \in DOMAIN calls } :
                  (\A p \in 0..k : \E c \in DOMAIN calls : calls[c].page = p) =>
                      /\ Cardinality(UpTo(k)) =
                            Min((k + 1) * storeCall.limit, Cardinality(Selected))
                      /\ \A a \in UpTo(k), left \in Selected \ UpTo(k) : a.ts >= left.ts

\* a caller listed three messages page by page, one row a page, and called
\* for the second page twice: the first two messages have the same
\* timestamp, and the third page holds the remaining message
C24_Witness ==
    /\ storeCall.op = "ListMessages"
    /\ storeCall.limit = 1
    /\ Cardinality(Selected) = 3
    /\ Len(storeCall.earlier) = 3
    /\ storeCall.earlier[1].page = 0
    /\ storeCall.earlier[2].page = 1
    /\ storeCall.earlier[3].page = 1
    /\ storeCall.page = 2
    /\ storeCall.earlier[1].result[1].ts = storeCall.earlier[2].result[1].ts
    /\ Len(storeCall.result) = 1

\* C25: no row SearchContacts returns is a group address, whatever the
\* store holds, the query and the pattern sets.
C25_ContactsAreDirect ==
    storeCall.op = "SearchContacts" =>
        \A i \in 1..Len(storeCall.result) : ~IsGroupJID(storeCall.result[i].jid)

\* the store holds the group, the empty query matches every name and the
\* include set admits the group: only Alice is returned
C25_Witness ==
    /\ storeCall.op = "SearchContacts"
    /\ storeCall.query = ""
    /\ storeCall.include = Slice(<<"111234@", "999999@">>)
    /\ storeCall.exclude = NilSlice
    /\ \E row \in chats : row.jid = GroupChat
    /\ Len(storeCall.result) = 1
    /\ storeCall.result[1].jid = Alice

(* ---------------------------------------------------------------------- *)
(* Properties of the coordinator flags taken together                      *)
(* ---------------------------------------------------------------------- *)

\* C27: as long as the flags are written by the QR activity, the success
\* signal and the sync loop only (no direct SetSyncing, no direct
\* SetAuthenticated(false)), syncing = true implies authenticated = true,
\* and authenticated never goes from true back to false.
C27_SyncingImpliesAuthenticated ==
    /\ []( (NoDirect("SetSyncing") /\ NoDirect("SetAuthenticated(false)")) =>
              (syncing => authenticated) )
    /\ [][ ("SetAuthenticated(false)" \notin directWrites') =>
              (authenticated => authenticated') ]_vars

\* the QR activity authenticated the session and the sync loop is inside Sync
C27_Witness ==
    /\ qrPc = "done"
    /\ directWrites = {}
    /\ authenticated
    /\ syncing
    /\ syncPc = "inSync"

\* C28: whenever the readiness predicate (authenticated and syncing) holds,
\* syncRunning is true: the service is never ready while the sync status
\* snapshot says not running (syncing being written by the sync loop only).
C28_ReadyImpliesRunning ==
    (authenticated /\ syncing /\ NoDirect("SetSyncing")) => syncRunning

\* C29: whenever authenticated is true the stored challenge code is empty
\* (the code being written by the QR callbacks only).
C29_AuthenticatedImpliesNoQR ==
    (authenticated /\ NoDirect("SetCurrentQR")) => GetCurrentQR(currentQR) = ""

\* C30: for every allow-list/deny-list configuration and every non-group
\* address, IsAllowed(address) is true exactly when the address passes the
\* pattern sets of JIDSuffixes under the store's substring rule.
C30_SendAndReadFiltersAgree ==
    (probe.fn = "IsAllowed" /\ ~IsGroupJID(probe.jid)) =>
        ( probe.result <=>
            PassesPatterns(probe.jid,
                           JIDSuffixes(PhoneFilterOf(cfg)).includeJIDs,
                           JIDSuffixes(PhoneFilterOf(cfg)).excludeJIDs) )

====
